---- MODULE Spec2Model ----
(***************************************************************************)
(* Sexagesimal angle engine of ocrosby/astronomy (package angles):         *)
(* the DMS converter (DMS, Ddd), the unified formatter (formatAngle, the   *)
(* fluent ConcreteAngleFormatter and Angle.String) and the parser          *)
(* (ParseAngle and its helpers).                                           *)
(*                                                                         *)
(* float64 values are held on an exact fixed-point grid: a value is a      *)
(* record [neg, n, f] standing for (+/-)(n + f/Scale).  A decimal-degree   *)
(* magnitude (alpha) is held in arc seconds, so that the truncations and   *)
(* remainders of DMS are exact; minutes and seconds values are held in     *)
(* their own unit.  The sign is a separate bit, as in IEEE-754, so -0.0    *)
(* exists.  Strings are sequences of one-character strings.                *)
(***************************************************************************)
EXTENDS Integers, Sequences, FiniteSets, TLC

VARIABLES
    pc,         \* position of the calling code
    alpha,      \* the decimal-degree argument of the call under study
    degrees,    \* caller's variable behind DMS's *degrees
    minutes,    \* caller's variable behind DMS's *minutes
    seconds,    \* caller's variable behind DMS's *seconds
    ddd,        \* value returned by Ddd
    formatter,  \* the ConcreteAngleFormatter object
    angle,      \* the Angle object
    str,        \* string returned by ConcreteAngleFormatter.String
    sym,        \* string returned by Angle.String
    input,      \* argument of ParseAngle
    parsed,     \* (angle, error) pair returned by ParseAngle
    given,      \* the last argument the caller gave to each setter, if any
    ret,        \* the last call of an accessor of the Angle and its result
    thread,     \* the threads calling the package: position and locals of each
    mem,        \* the variables the threads' calls of DMS write through pointers
    heap,       \* the ConcreteAngleFormatter and DisplayOptions objects allocated
    caller      \* the references to formatters a caller holds, and what it set

vars == <<pc, alpha, degrees, minutes, seconds, ddd, formatter, angle,
          str, sym, input, parsed, given, ret, thread, mem, heap, caller>>

Nil == "nil"

(***************************************************************************)
(* Program constants                                                       *)
(***************************************************************************)
MaxMinutes == 60
MaxSeconds == 60
DefaultPrecision == 2
DefaultWidth == 0
SecondsPerMinute == 60
MinutesPerDegree == 60
SecondsPerDegree == 3600

Dd == "Dd"
DMM == "DMM"
DMMm == "DMMm"
DMMSS == "DMMSS"
DMMSSs == "DMMSSs"
AngleFormat == {Dd, DMM, DMMm, DMMSS, DMMSSs}

(***************************************************************************)
(* The fixed-point grid                                                    *)
(***************************************************************************)
FracDigits == 7

RECURSIVE Pow10(_)
Pow10(k) == IF k <= 0 THEN 1 ELSE 10 * Pow10(k - 1)

Scale == Pow10(FracDigits)

Fx(neg, n, f) == [neg |-> neg, n |-> n, f |-> f]
FxZero == Fx(FALSE, 0, 0)
FxInt(i) == IF i < 0 THEN Fx(TRUE, -i, 0) ELSE Fx(FALSE, i, 0)
FxIsZero(x) == x.n = 0 /\ x.f = 0
\* x < 0 (false for -0.0, as in IEEE-754)
FxLt0(x) == x.neg /\ ~FxIsZero(x)
\* math.Abs
FxAbs(x) == [x EXCEPT !.neg = FALSE]
\* unary minus (flips the sign bit, also of a zero)
FxNeg(x) == [x EXCEPT !.neg = ~x.neg]
\* int(x): truncation toward zero
FxTrunc(x) == IF x.neg THEN -x.n ELSE x.n
\* x - float64(int(x)): the signed fractional part
FxFracPart(x) == [x EXCEPT !.n = 0]
\* numeric equality (-0.0 == 0.0)
FxEq(x, y) == x.n = y.n /\ x.f = y.f /\ (x.neg = y.neg \/ FxIsZero(x))
\* x * k for a small natural k, exact, limb by limb to stay within 32 bits
FxMul(x, k) ==
    LET H   == Pow10(4)
        lo  == x.f % H
        hi  == x.f \div H
        tlo == lo * k
        thi == hi * k + (tlo \div H)
        top == Scale \div H
    IN  Fx(x.neg, x.n * k + (thi \div top), (thi % top) * H + (tlo % H))
\* |x| + |y| for two values of the same unit
FxAddAbs(x, y) ==
    LET s == x.f + y.f
    IN  Fx(FALSE, x.n + y.n + (s \div Scale), s % Scale)
\* |x| <= |y|
FxAbsLe(x, y) == x.n < y.n \/ (x.n = y.n /\ x.f <= y.f)
\* | |x| - |y| |
FxAbsDiff(x, y) ==
    LET big   == IF FxAbsLe(x, y) THEN y ELSE x
        small == IF FxAbsLe(x, y) THEN x ELSE y
    IN  IF big.f >= small.f
        THEN Fx(FALSE, big.n - small.n, big.f - small.f)
        ELSE Fx(FALSE, big.n - small.n - 1, big.f + Scale - small.f)

Abs(i) == IF i < 0 THEN -i ELSE i

(***************************************************************************)
(* DMS converter                                                           *)
(***************************************************************************)
\* Ddd converts degrees, minutes, seconds to decimal degrees
Ddd_SignFromDegreesOnly(d, m, s) ==
    LET result == Fx(FALSE,
                     Abs(d) * SecondsPerDegree + Abs(m) * SecondsPerMinute + s.n,
                     s.f)
    IN  IF d < 0 THEN FxNeg(result) ELSE result

Ddd(d, m, s) ==
    LET negative == d < 0 \/ (d = 0 /\ m < 0) \/ (d = 0 /\ m = 0 /\ FxLt0(s))
        result   == Fx(FALSE,
                       Abs(d) * SecondsPerDegree + Abs(m) * SecondsPerMinute + s.n,
                       s.f)
    IN  IF negative THEN FxNeg(result) ELSE result

\* DMS converts decimal degrees to degrees, minutes, seconds
DMS_SignOnDegreesOnly(decimalDegrees) ==
    LET negative == FxLt0(decimalDegrees)
        d == decimalDegrees.n \div SecondsPerDegree
        m == (decimalDegrees.n % SecondsPerDegree) \div SecondsPerMinute
        s == Fx(FALSE, decimalDegrees.n % SecondsPerMinute, decimalDegrees.f)
    IN  [degrees |-> IF negative THEN -d ELSE d, minutes |-> m, seconds |-> s]

DMS_SignOnAll(decimalDegrees) ==
    LET negative == FxLt0(decimalDegrees)
        d == decimalDegrees.n \div SecondsPerDegree
        m == (decimalDegrees.n % SecondsPerDegree) \div SecondsPerMinute
        s == Fx(FALSE, decimalDegrees.n % SecondsPerMinute, decimalDegrees.f)
    IN  IF negative
        THEN [degrees |-> -d, minutes |-> -m, seconds |-> FxNeg(s)]
        ELSE [degrees |-> d, minutes |-> m, seconds |-> s]

DMS(decimalDegrees) ==
    LET negative == FxLt0(decimalDegrees)
        \* decimalDegrees = -decimalDegrees
        a == FxAbs(decimalDegrees)
        \* *degrees = int(decimalDegrees)
        d == a.n \div SecondsPerDegree
        \* remainder := (decimalDegrees - float64(*degrees)) * MinutesPerDegree
        \* *minutes = int(remainder)
        m == (a.n % SecondsPerDegree) \div SecondsPerMinute
        \* *seconds = (remainder - float64(*minutes)) * SecondsPerMinute
        s == Fx(FALSE, a.n % SecondsPerMinute, a.f)
    IN  IF ~negative
        THEN [degrees |-> d, minutes |-> m, seconds |-> s]
        ELSE IF d # 0
             THEN [degrees |-> -d, minutes |-> m, seconds |-> s]
             ELSE IF m # 0
                  THEN [degrees |-> d, minutes |-> -m, seconds |-> s]
                  ELSE [degrees |-> d, minutes |-> m, seconds |-> FxNeg(s)]

(***************************************************************************)
(* fmt.Sprintf                                                             *)
(***************************************************************************)
DegreeSign == "deg"     \* the rune U+00B0
MinuteSign == "'"
SecondSign == "\""

Digits == <<"0", "1", "2", "3", "4", "5", "6", "7", "8", "9">>
DigitChar(d) == Digits[d + 1]

RECURSIVE NatStr(_)
NatStr(n) ==
    IF n < 10 THEN <<DigitChar(n)>>
    ELSE NatStr(n \div 10) \o <<DigitChar(n % 10)>>

\* the last w decimal digits of n, zero filled
RECURSIVE PadNat(_, _)
PadNat(n, w) ==
    IF w <= 0 THEN <<>> ELSE PadNat(n \div 10, w - 1) \o <<DigitChar(n % 10)>>

\* %d
IntStr(i) == IF i < 0 THEN <<"-">> \o NatStr(-i) ELSE NatStr(i)

\* %02d: zero filled to two characters, the sign counted
IntStr02(i) == IF 0 <= i /\ i < 10 THEN <<"0">> \o NatStr(i) ELSE IntStr(i)

\* p steps of the long division of (q + (rn + rf/Scale)/den) by 1/10:
\* the quotient floor(x * 10^p / den) and what is left over
RECURSIVE LongDiv(_, _, _, _, _)
LongDiv(q, rn, rf, den, p) ==
    IF p = 0 THEN [q |-> q, rn |-> rn, rf |-> rf]
    ELSE LET t   == rf * 10
             rn2 == rn * 10 + (t \div Scale)
         IN  LongDiv(q * 10 + (rn2 \div den), rn2 % den, t % Scale, den, p - 1)

\* %.*f of the value x/den: correctly rounded to prec digits, ties to even;
\* a negative precision argument is dropped by fmt, which leaves %f's 6 digits;
\* the sign bit is printed also when the digits are all 0
FloatStr(x, den, prec) ==
    LET p    == IF prec < 0 THEN 6 ELSE prec
        d    == LongDiv(x.n \div den, x.n % den, x.f, den, p)
        t2   == 2 * d.rf
        dbl  == 2 * d.rn + (t2 \div Scale)
        rest == t2 % Scale
        up   == \/ dbl > den
                \/ dbl = den /\ rest > 0
                \/ dbl = den /\ rest = 0 /\ d.q % 2 = 1
        N    == IF up THEN d.q + 1 ELSE d.q
        body == IF p = 0 THEN NatStr(N)
                ELSE NatStr(N \div Pow10(p)) \o <<".">> \o PadNat(N % Pow10(p), p)
    IN  IF x.neg THEN <<"-">> \o body ELSE body

\* %-*s cutting the string to the width
PadRight_Truncating(s, width) ==
    IF Len(s) >= width THEN SubSeq(s, 1, width)
    ELSE s \o [i \in 1 .. (width - Len(s)) |-> " "]

\* %-*s
PadRight(s, width) ==
    IF Len(s) >= width THEN s
    ELSE s \o [i \in 1 .. (width - Len(s)) |-> " "]

(***************************************************************************)
(* Formatter                                                               *)
(***************************************************************************)
\* getDMSComponents extracts DMS components and handles negative zero case
getDMSComponents_NoNegativeZero(a) ==
    LET c == DMS(a)
    IN  [degrees |-> c.degrees, minutes |-> c.minutes, seconds |-> c.seconds,
         isNegativeZero |-> FALSE]

getDMSComponents(a) ==
    LET c == DMS(a)
    IN  [degrees |-> c.degrees, minutes |-> c.minutes, seconds |-> c.seconds,
         isNegativeZero |-> FxLt0(a) /\ c.degrees = 0]

\* formatAngle provides unified formatting logic for both Angle and AngleFormatter
formatAngle(a, format, precision, width, useSymbols) ==
    LET components == getDMSComponents(a)
        deg    == components.degrees
        min    == components.minutes
        sec    == components.seconds
        negz   == components.isNegativeZero
        absMin == Abs(min)
        \* math.Abs(float64(minutes)) + math.Abs(seconds)/SecondsPerMinute,
        \* held in seconds
        minutesAbs == Fx(FALSE, absMin * SecondsPerMinute + sec.n, sec.f)
        minutesDecimal == IF negz THEN FxNeg(minutesAbs) ELSE minutesAbs
        decimal ==
            IF useSymbols
            THEN FloatStr(a, SecondsPerDegree, 5) \o <<DegreeSign>>
            ELSE FloatStr(a, SecondsPerDegree, precision)
        result ==
            CASE format = Dd -> decimal
              [] format = DMM ->
                    IF useSymbols
                    THEN IF negz
                         THEN IntStr(deg) \o <<DegreeSign>> \o IntStr02(min)
                                  \o <<MinuteSign>>
                         ELSE IntStr(deg) \o <<DegreeSign>> \o IntStr02(absMin)
                                  \o <<MinuteSign>>
                    ELSE IF negz
                         THEN IntStr(deg) \o <<" ">> \o IntStr(min)
                         ELSE IntStr(deg) \o <<" ">> \o IntStr(absMin)
              [] format = DMMm ->
                    IF useSymbols
                    THEN IntStr(deg) \o <<DegreeSign>>
                             \o FloatStr(minutesDecimal, SecondsPerMinute, 3)
                             \o <<MinuteSign>>
                    ELSE IntStr(deg) \o <<" ">>
                             \o FloatStr(minutesDecimal, SecondsPerMinute, precision)
              [] format = DMMSS ->
                    IF useSymbols
                    THEN IF negz
                         THEN IntStr(deg) \o <<DegreeSign>> \o IntStr02(min)
                                  \o <<MinuteSign>> \o IntStr02(FxTrunc(sec))
                                  \o <<SecondSign>>
                         ELSE IntStr(deg) \o <<DegreeSign>> \o IntStr02(absMin)
                                  \o <<MinuteSign>>
                                  \o IntStr02(FxTrunc(FxAbs(sec)))
                                  \o <<SecondSign>>
                    ELSE IF negz
                         THEN IntStr(deg) \o <<" ">> \o IntStr(min) \o <<" ">>
                                  \o IntStr(FxTrunc(sec))
                         ELSE IntStr(deg) \o <<" ">> \o IntStr(absMin) \o <<" ">>
                                  \o IntStr(FxTrunc(FxAbs(sec)))
              [] format = DMMSSs ->
                    IF useSymbols
                    THEN IF negz
                         THEN IntStr(deg) \o <<DegreeSign>> \o IntStr02(min)
                                  \o <<MinuteSign>> \o FloatStr(sec, 1, 3)
                                  \o <<SecondSign>>
                         ELSE IntStr(deg) \o <<DegreeSign>> \o IntStr02(absMin)
                                  \o <<MinuteSign>> \o FloatStr(FxAbs(sec), 1, 3)
                                  \o <<SecondSign>>
                    ELSE IF negz
                         THEN IntStr(deg) \o <<" ">> \o IntStr(min) \o <<" ">>
                                  \o FloatStr(sec, 1, precision)
                         ELSE IntStr(deg) \o <<" ">> \o IntStr(absMin) \o <<" ">>
                                  \o FloatStr(FxAbs(sec), 1, precision)
              [] OTHER -> decimal
    IN  IF width > 0 THEN PadRight(result, width) ELSE result

\* NewAngle creates a new Angle instance with default format Dd
NewAngle_DefaultFormat(a, format) == [alpha |-> a, format |-> Dd]

NewAngle(a, format) == [alpha |-> a, format |-> format]

\* NewAngle with its variadic format: no format given means Dd
NewAngleVariadic(a, format) ==
    LET f == IF Len(format) > 0 THEN format[1] ELSE Dd
    IN  NewAngle(a, f)

\* Set storing a fresh Angle that holds the format
Set_FreshAngle(a, format) ==
    LET f == IF Len(format) > 0 THEN format[1] ELSE Dd
    IN  [alpha |-> FxZero, format |-> f]

\* Set sets the angle format, defaulting to Dd
Set(a, format) ==
    LET f == IF Len(format) > 0 THEN format[1] ELSE Dd
    IN  [a EXCEPT !.format = f]

\* Alpha returns the angle value in decimal degrees
Alpha(a) == a.alpha

\* Degrees returns the angle value in decimal degrees
Degrees(a) == a.alpha

\* DegreesToRadians: degrees * constants.Rad, in units of 10^-7 radian from
\* the whole arc seconds (one arc second is 48.481e-7 radian)
DegreesToRadians(d) ==
    [neg |-> d.neg, e7 |-> d.n * 48 + (d.n * 481) \div 1000]

\* Radians returns the angle value in radians
Radians(a) == DegreesToRadians(a.alpha)

\* Format returns the current angle format
AngleFormatOf(a) == a.format

\* Angle.String before the refactoring (pkg/angles/angles.go): one case per
\* format, each calling DMS itself
OriginalString(a) ==
    LET c        == DMS(a.alpha)
        degrees_ == c.degrees
        minutes_ == c.minutes
        seconds_ == c.seconds
        small    == FxLt0(a.alpha) /\ degrees_ = 0
        \* math.Abs(float64(minutes)) + math.Abs(seconds)/60.0, in seconds
        minutesDecimal ==
            Fx(small, Abs(minutes_) * 60 + seconds_.n, seconds_.f)
    IN  CASE a.format = Dd ->
                 FloatStr(a.alpha, 3600, 5) \o <<DegreeSign>>
          [] a.format = DMM ->
                 IF small
                 THEN IntStr(degrees_) \o <<DegreeSign>> \o IntStr02(minutes_)
                          \o <<MinuteSign>>
                 ELSE IntStr(degrees_) \o <<DegreeSign>>
                          \o IntStr02(Abs(minutes_)) \o <<MinuteSign>>
          [] a.format = DMMm ->
                 IntStr(degrees_) \o <<DegreeSign>>
                     \o FloatStr(minutesDecimal, 60, 3) \o <<MinuteSign>>
          [] a.format = DMMSS ->
                 IF small
                 THEN IntStr(degrees_) \o <<DegreeSign>> \o IntStr02(minutes_)
                          \o <<MinuteSign>> \o IntStr02(FxTrunc(seconds_))
                          \o <<SecondSign>>
                 ELSE IntStr(degrees_) \o <<DegreeSign>>
                          \o IntStr02(Abs(minutes_)) \o <<MinuteSign>>
                          \o IntStr02(FxTrunc(FxAbs(seconds_)))
                          \o <<SecondSign>>
          [] a.format = DMMSSs ->
                 IF small
                 THEN IntStr(degrees_) \o <<DegreeSign>> \o IntStr02(minutes_)
                          \o <<MinuteSign>> \o FloatStr(seconds_, 1, 3)
                          \o <<SecondSign>>
                 ELSE IntStr(degrees_) \o <<DegreeSign>>
                          \o IntStr02(Abs(minutes_)) \o <<MinuteSign>>
                          \o FloatStr(FxAbs(seconds_), 1, 3) \o <<SecondSign>>
          [] OTHER ->
                 FloatStr(a.alpha, 3600, 5) \o <<DegreeSign>>

\* NewDisplayOptions creates default display options
NewDisplayOptions == [Precision |-> DefaultPrecision, Width |-> DefaultWidth]

\* NewFormatter creates a new ConcreteAngleFormatter with the given angle value
NewFormatter(a) ==
    [value |-> NewAngle(a, Dd), format |-> Dd, display |-> NewDisplayOptions]

\* ConcreteAngleFormatter.String
FormatterString(f) ==
    formatAngle(f.value.alpha, f.format, f.display.Precision, f.display.Width,
                FALSE)

\* Angle.String
AngleString(a) == formatAngle(a.alpha, a.format, 3, 0, TRUE)

(***************************************************************************)
(* strings, strconv                                                        *)
(***************************************************************************)
LowerLetters == <<"a", "b", "c", "d", "e", "f", "g", "h", "i", "j", "k", "l",
                  "m", "n", "o", "p", "q", "r", "s", "t", "u", "v", "w", "x",
                  "y", "z">>
UpperLetters == <<"A", "B", "C", "D", "E", "F", "G", "H", "I", "J", "K", "L",
                  "M", "N", "O", "P", "Q", "R", "S", "T", "U", "V", "W", "X",
                  "Y", "Z">>

Range(q) == {q[i] : i \in 1 .. Len(q)}

\* ValidParseChars without the tab
ValidParseChars_NoTab ==
    Range(Digits) \cup {".", "-", "+", " "} \cup Range(LowerLetters)
        \cup Range(UpperLetters)

\* "0123456789.-+ \tabcdefghijklmnopqrstuvwxyzABCDEFGHIJKLMNOPQRSTUVWXYZ"
ValidParseChars ==
    Range(Digits) \cup {".", "-", "+", " ", "\t"} \cup Range(LowerLetters)
        \cup Range(UpperLetters)

\* unicode.IsSpace, on the characters of the model
IsSpace(c) == c \in {" ", "\t", "\n"}

IsDigit(c) == c \in Range(Digits)
DigitVal(c) == CHOOSE d \in 0 .. 9 : Digits[d + 1] = c

ToLower(c) ==
    IF c \in Range(UpperLetters)
    THEN LowerLetters[CHOOSE k \in 1 .. 26 : UpperLetters[k] = c]
    ELSE c

\* strings.Contains / strings.Count for a one-character pattern
Contains(q, c) == \E k \in 1 .. Len(q) : q[k] = c
Count(q, c) == Cardinality({k \in 1 .. Len(q) : q[k] = c})
\* strings.HasPrefix for a one-character prefix
HasPrefix(q, c) == Len(q) > 0 /\ q[1] = c

RECURSIVE TrimLeft(_)
TrimLeft(q) ==
    IF q = <<>> THEN q
    ELSE IF IsSpace(Head(q)) THEN TrimLeft(Tail(q)) ELSE q

RECURSIVE TrimRight(_)
TrimRight(q) ==
    IF q = <<>> THEN q
    ELSE IF IsSpace(q[Len(q)]) THEN TrimRight(SubSeq(q, 1, Len(q) - 1)) ELSE q

\* strings.TrimSpace
TrimSpace(q) == TrimRight(TrimLeft(q))

RECURSIVE FieldsFrom(_, _, _)
FieldsFrom(q, cur, acc) ==
    IF q = <<>> THEN (IF cur = <<>> THEN acc ELSE Append(acc, cur))
    ELSE IF IsSpace(Head(q))
         THEN FieldsFrom(Tail(q), <<>>,
                         IF cur = <<>> THEN acc ELSE Append(acc, cur))
         ELSE FieldsFrom(Tail(q), Append(cur, Head(q)), acc)

\* a split at every single white space character, which yields an empty
\* string between two adjacent ones
Fields_AtEverySpace(q) ==
    LET cuts   == {k \in 1 .. Len(q) : IsSpace(q[k])} \cup {0, Len(q) + 1}
        cut(i) == CHOOSE k \in cuts : Cardinality({j \in cuts : j < k}) = i
    IN  [i \in 1 .. Cardinality(cuts) - 1 |->
            SubSeq(q, cut(i - 1) + 1, cut(i) - 1)]

\* strings.Fields: the maximal runs of non-space characters
Fields(q) == FieldsFrom(q, <<>>, <<>>)

RECURSIVE NatVal(_)
NatVal(q) ==
    IF q = <<>> THEN 0
    ELSE 10 * NatVal(SubSeq(q, 1, Len(q) - 1)) + DigitVal(q[Len(q)])

\* the digits after the decimal point as a count of 1/Scale; digits finer
\* than the grid are dropped
RECURSIVE FracVal(_, _)
FracVal(q, place) ==
    IF q = <<>> \/ place = 0 THEN 0
    ELSE DigitVal(Head(q)) * (place \div 10) + FracVal(Tail(q), place \div 10)

AllDigits(q) == \A k \in 1 .. Len(q) : IsDigit(q[k])
Unsigned(q) == IF HasPrefix(q, "+") \/ HasPrefix(q, "-") THEN Tail(q) ELSE q

\* strconv.Atoi: an optional sign and at least one digit, nothing else.
\* (values beyond the int range do not occur in the inputs of the model)
Atoi(q) ==
    LET u == Unsigned(q)
    IN  IF u # <<>> /\ AllDigits(u)
        THEN [ok |-> TRUE,
              value |-> IF HasPrefix(q, "-") THEN -NatVal(u) ELSE NatVal(u)]
        ELSE [ok |-> FALSE, value |-> 0]

Lowered(q) == [k \in 1 .. Len(q) |-> ToLower(q[k])]

\* strconv.ParseFloat(str, 64) on the alphabet of the model (no exponent,
\* hexadecimal or underscore syntax): "inf"/"infinity" with an optional sign
\* and "nan" without one, in any case, or an optional sign and decimal digits
\* with at most one point and at least one digit
ParseFloat(q) ==
    LET u   == Unsigned(q)
        low == Lowered(u)
        dot == IF Contains(u, ".")
               THEN CHOOSE k \in 1 .. Len(u) : u[k] = "." ELSE Len(u) + 1
        ip  == SubSeq(u, 1, dot - 1)
        fp  == SubSeq(u, dot + 1, Len(u))
    IN  IF low \in {<<"i", "n", "f">>,
                    <<"i", "n", "f", "i", "n", "i", "t", "y">>}
        THEN [ok |-> TRUE, class |-> "inf", value |-> FxZero]
        ELSE IF Lowered(q) = <<"n", "a", "n">>
        THEN [ok |-> TRUE, class |-> "nan", value |-> FxZero]
        ELSE IF AllDigits(ip) /\ AllDigits(fp) /\ Len(ip) + Len(fp) > 0
        THEN [ok |-> TRUE, class |-> "finite",
              value |-> Fx(HasPrefix(q, "-"), NatVal(ip), FracVal(fp, Scale))]
        ELSE [ok |-> FALSE, class |-> "finite", value |-> FxZero]

(***************************************************************************)
(* Parser                                                                  *)
(***************************************************************************)
\* fmt.Errorf: the kind of the message, the component it names, the character
\* it names and, when the message quotes the input, the input as quoted;
\* NoError is the nil error
Error(kind, component, char, quoted, echo) ==
    [kind |-> kind, component |-> component, char |-> char,
     quoted |-> quoted, echo |-> echo]
NoError == Error(Nil, Nil, Nil, FALSE, <<>>)
IsError(e) == e.kind # Nil

\* the nil *Angle
NilAngle == [alpha |-> FxZero, format |-> Nil]
IsNilAngle(a) == a.format = Nil

\* a failure that hands back an angle built so far
Failure_PartialAngle(e) == [angle |-> [alpha |-> FxZero, format |-> Dd], err |-> e]
Failure(e) == [angle |-> NilAngle, err |-> e]
Success(a) == [angle |-> a, err |-> NoError]

\* validateNumericString with its two checks in the other order
validateNumericString_MisplacedFirst(q, componentName, originalInput) ==
    IF Len(q) > 1 /\ (Contains(Tail(q), "+") \/ Contains(Tail(q), "-"))
    THEN Error("MisplacedSign", componentName, Nil, TRUE, originalInput)
    ELSE IF Count(q, "+") + Count(q, "-") > 1
    THEN Error("MultipleSigns", componentName, Nil, TRUE, originalInput)
    ELSE NoError

\* validateNumericString performs common string validation for numeric components
validateNumericString(q, componentName, originalInput) ==
    IF Count(q, "+") + Count(q, "-") > 1
    THEN Error("MultipleSigns", componentName, Nil, TRUE, originalInput)
    ELSE IF Len(q) > 1 /\ (Contains(Tail(q), "+") \/ Contains(Tail(q), "-"))
    THEN Error("MisplacedSign", componentName, Nil, TRUE, originalInput)
    ELSE NoError

\* parseIntegerComponent without its check for a decimal point
parseIntegerComponent_NoDecimalCheck(q, componentName, originalInput) ==
    LET bad == validateNumericString(q, componentName, originalInput)
        r   == Atoi(q)
    IN  IF IsError(bad) THEN [value |-> 0, err |-> bad]
        ELSE IF ~r.ok
        THEN [value |-> 0,
              err |-> Error("InvalidComponent", componentName, Nil, TRUE, originalInput)]
        ELSE [value |-> r.value, err |-> NoError]

\* parseIntegerComponent parses an integer component with validation
parseIntegerComponent(q, componentName, originalInput) ==
    LET bad == validateNumericString(q, componentName, originalInput)
        r   == Atoi(q)
    IN  IF IsError(bad) THEN [value |-> 0, err |-> bad]
        ELSE IF Contains(q, ".")
        THEN [value |-> 0,
              err |-> Error("UnexpectedDecimalPoint", componentName, Nil, TRUE, originalInput)]
        ELSE IF ~r.ok
        THEN [value |-> 0,
              err |-> Error("InvalidComponent", componentName, Nil, TRUE, originalInput)]
        ELSE [value |-> r.value, err |-> NoError]

\* parseFloatComponent parses a float component with validation
parseFloatComponent(q, componentName, originalInput) ==
    LET bad == validateNumericString(q, componentName, originalInput)
        r   == ParseFloat(q)
    IN  IF IsError(bad) THEN [value |-> FxZero, err |-> bad]
        ELSE IF Count(q, ".") > 1
        THEN [value |-> FxZero,
              err |-> Error("MultipleDecimalPoints", componentName, Nil, TRUE, originalInput)]
        ELSE IF ~r.ok
        THEN [value |-> FxZero,
              err |-> Error("InvalidComponent", componentName, Nil, TRUE, originalInput)]
        ELSE IF r.class # "finite"
        THEN [value |-> FxZero,
              err |-> Error("NonFiniteValue", componentName, Nil, TRUE, originalInput)]
        ELSE [value |-> r.value, err |-> NoError]

\* validateMinutesInt comparing the minutes themselves, not their magnitude
validateMinutesInt_NoAbs(m, originalInput) ==
    IF m >= MaxMinutes
    THEN Error("OutOfRange", "minutes", Nil, TRUE, originalInput) ELSE NoError

\* validateMinutesInt validates integer minutes are within valid range
validateMinutesInt(m, originalInput) ==
    IF Abs(m) >= MaxMinutes
    THEN Error("OutOfRange", "minutes", Nil, TRUE, originalInput) ELSE NoError

\* validateMinutesFloat validates float minutes are within valid range
validateMinutesFloat(m, originalInput) ==
    IF m.n >= MaxMinutes
    THEN Error("OutOfRange", "minutes", Nil, TRUE, originalInput) ELSE NoError

\* validateSecondsInt validates integer seconds are within valid range
validateSecondsInt(sec, originalInput) ==
    IF Abs(sec) >= MaxSeconds
    THEN Error("OutOfRange", "seconds", Nil, TRUE, originalInput) ELSE NoError

\* validateSecondsFloat validates float seconds are within valid range
validateSecondsFloat(sec, originalInput) ==
    IF sec.n >= MaxSeconds
    THEN Error("OutOfRange", "seconds", Nil, TRUE, originalInput) ELSE NoError

\* parseDdFormat handles parsing of decimal degrees format
parseDdFormat(degreeStr, originalInput) ==
    LET value == parseFloatComponent(degreeStr, "decimal degrees", originalInput)
    IN  IF IsError(value.err) THEN Failure(value.err)
        ELSE Success(NewAngle(FxMul(value.value, SecondsPerDegree), Dd))

\* parseDMMFormat handles parsing of degrees and minutes formats
parseDMMFormat(degreeStr, minuteStr, originalInput) ==
    LET deg  == parseIntegerComponent(degreeStr, "degrees", originalInput)
        minF == parseFloatComponent(minuteStr, "minutes", originalInput)
        minI == parseIntegerComponent(minuteStr, "minutes", originalInput)
    IN  IF IsError(deg.err) THEN Failure(deg.err)
        ELSE IF Contains(minuteStr, ".")
        THEN \* DMMm format
             IF IsError(minF.err) THEN Failure(minF.err)
             ELSE IF IsError(validateMinutesFloat(minF.value, originalInput))
             THEN Failure(validateMinutesFloat(minF.value, originalInput))
             ELSE Success(NewAngle(
                      Ddd(deg.value, FxTrunc(minF.value),
                          FxMul(FxFracPart(minF.value), SecondsPerMinute)),
                      DMMm))
        ELSE \* DMM format
             IF IsError(minI.err) THEN Failure(minI.err)
             ELSE IF IsError(validateMinutesInt(minI.value, originalInput))
             THEN Failure(validateMinutesInt(minI.value, originalInput))
             ELSE Success(NewAngle(Ddd(deg.value, minI.value, FxZero), DMM))

\* parseDMMSSFormat checking the range of the minutes after it has parsed
\* the seconds
parseDMMSSFormat_RangeLast(degreeStr, minuteStr, secondStr, originalInput) ==
    LET deg  == parseIntegerComponent(degreeStr, "degrees", originalInput)
        min  == parseIntegerComponent(minuteStr, "minutes", originalInput)
        sec  == IF Contains(secondStr, ".")
                THEN parseFloatComponent(secondStr, "seconds", originalInput)
                ELSE [value |->
                          FxInt(parseIntegerComponent(secondStr, "seconds",
                                                      originalInput).value),
                      err |->
                          parseIntegerComponent(secondStr, "seconds",
                                                originalInput).err]
        isNegativeZero == HasPrefix(degreeStr, "-") /\ deg.value = 0
        signed(d) == IF isNegativeZero THEN FxNeg(d) ELSE d
    IN  IF IsError(deg.err) THEN Failure(deg.err)
        ELSE IF IsError(min.err) THEN Failure(min.err)
        ELSE IF IsError(sec.err) THEN Failure(sec.err)
        ELSE IF IsError(validateMinutesInt(min.value, originalInput))
        THEN Failure(validateMinutesInt(min.value, originalInput))
        ELSE IF IsError(validateSecondsFloat(sec.value, originalInput))
        THEN Failure(validateSecondsFloat(sec.value, originalInput))
        ELSE Success(NewAngle(
                 signed(Ddd(deg.value, min.value, sec.value)),
                 IF Contains(secondStr, ".") THEN DMMSSs ELSE DMMSS))

\* parseDMMSSFormat handles parsing of degrees, minutes, and seconds formats
parseDMMSSFormat(degreeStr, minuteStr, secondStr, originalInput) ==
    LET deg  == parseIntegerComponent(degreeStr, "degrees", originalInput)
        min  == parseIntegerComponent(minuteStr, "minutes", originalInput)
        secF == parseFloatComponent(secondStr, "seconds", originalInput)
        secI == parseIntegerComponent(secondStr, "seconds", originalInput)
        isNegativeZero == HasPrefix(degreeStr, "-") /\ deg.value = 0
        signed(d) == IF isNegativeZero THEN FxNeg(d) ELSE d
    IN  IF IsError(deg.err) THEN Failure(deg.err)
        ELSE IF IsError(min.err) THEN Failure(min.err)
        ELSE IF IsError(validateMinutesInt(min.value, originalInput))
        THEN Failure(validateMinutesInt(min.value, originalInput))
        ELSE IF Contains(secondStr, ".")
        THEN \* DMMSSs format
             IF IsError(secF.err) THEN Failure(secF.err)
             ELSE IF IsError(validateSecondsFloat(secF.value, originalInput))
             THEN Failure(validateSecondsFloat(secF.value, originalInput))
             ELSE Success(NewAngle(
                      signed(Ddd(deg.value, min.value, secF.value)), DMMSSs))
        ELSE \* DMMSS format
             IF IsError(secI.err) THEN Failure(secI.err)
             ELSE IF IsError(validateSecondsInt(secI.value, originalInput))
             THEN Failure(validateSecondsInt(secI.value, originalInput))
             ELSE Success(NewAngle(
                      signed(Ddd(deg.value, min.value, FxInt(secI.value))),
                      DMMSS))

\* ParseAngle counting the components before it looks at the characters
ParseAngle_CountFirst(in) ==
    LET originalInput == in
        trimmed == TrimSpace(in)
        invalid == {k \in 1 .. Len(trimmed) : trimmed[k] \notin ValidParseChars}
        firstInvalid == CHOOSE k \in invalid : \A j \in invalid : k <= j
        parts   == Fields(trimmed)
    IN  IF in = <<>>
        THEN Failure(Error("EmptyInput", Nil, Nil, FALSE, <<>>))
        ELSE IF trimmed = <<>>
        THEN Failure(Error("WhitespaceOnly", Nil, Nil, FALSE, <<>>))
        ELSE IF Len(parts) > 3
        THEN Failure(Error("TooManyComponents", Nil, Nil, TRUE, originalInput))
        ELSE IF invalid # {}
        THEN Failure(Error("InvalidCharacter", Nil, trimmed[firstInvalid], TRUE, originalInput))
        ELSE CASE Len(parts) = 1 -> parseDdFormat(parts[1], originalInput)
               [] Len(parts) = 2 ->
                      parseDMMFormat(parts[1], parts[2], originalInput)
               [] OTHER ->
                      parseDMMSSFormat(parts[1], parts[2], parts[3],
                                       originalInput)

\* ParseAngle parses a string in fluent output format and returns an Angle
ParseAngle(in) ==
    LET originalInput == in
        trimmed == TrimSpace(in)
        invalid == {k \in 1 .. Len(trimmed) : trimmed[k] \notin ValidParseChars}
        firstInvalid == CHOOSE k \in invalid : \A j \in invalid : k <= j
        parts   == Fields(trimmed)
        empty   == {k \in 1 .. Len(parts) : parts[k] = <<>>}
    IN  IF in = <<>>
        THEN Failure(Error("EmptyInput", Nil, Nil, FALSE, <<>>))
        ELSE IF trimmed = <<>>
        THEN Failure(Error("WhitespaceOnly", Nil, Nil, FALSE, <<>>))
        ELSE IF invalid # {}
        THEN Failure(Error("InvalidCharacter", Nil, trimmed[firstInvalid], TRUE, originalInput))
        ELSE IF Len(parts) = 0
        THEN Failure(Error("NoComponents", Nil, Nil, TRUE, originalInput))
        ELSE IF empty # {}
        THEN Failure(Error("EmptyComponent", Nil, Nil, TRUE, originalInput))
        ELSE CASE Len(parts) = 1 -> parseDdFormat(parts[1], originalInput)
               [] Len(parts) = 2 ->
                      parseDMMFormat(parts[1], parts[2], originalInput)
               [] Len(parts) = 3 ->
                      parseDMMSSFormat(parts[1], parts[2], parts[3],
                                       originalInput)
               [] OTHER ->
                      Failure(Error("TooManyComponents", Nil, Nil, TRUE, originalInput))

(***************************************************************************)
(* Inputs                                                                  *)
(***************************************************************************)
DegValues == {0, 8, 12, 999}
MinValues == {0, 9, 20, 59}
SecValues == {0, 10, 44, 59}
\* fractions of an arc second: 0, .008, .16, .5 and the largest ones of the grid
FracValues == {0, 8 * (Scale \div 1000), 16 * (Scale \div 100), Scale \div 2,
               Scale - 4}

AlphaOf(neg, d, m, s, f) ==
    Fx(neg, d * SecondsPerDegree + m * SecondsPerMinute + s, f)

AlphaValues ==
    {AlphaOf(neg, d, m, s, f) :
        neg \in BOOLEAN, d \in DegValues, m \in MinValues, s \in SecValues,
        f \in FracValues} \ {Fx(TRUE, 0, 0)}

\* arguments of a direct call of Ddd, out-of-range minutes and seconds included
DddDegrees == {-8, 0, 15}
DddMinutes == {-5, 0, 9, 60, 75}
DddSeconds == {Fx(TRUE, 10, Scale \div 2), Fx(TRUE, 0, 1), FxZero,
               Fx(FALSE, 10, 0), Fx(FALSE, 61, Scale \div 4)}

(***************************************************************************)
(* Calls of the converter                                                  *)
(***************************************************************************)
InitDMS ==
    /\ pc = "start"
    /\ heap = Nil
    /\ caller = Nil
    /\ thread = Nil
    /\ mem = Nil
    /\ ret = Nil
    /\ given = Nil
    /\ alpha \in AlphaValues
    /\ degrees = 0
    /\ minutes = 0
    /\ seconds = FxZero
    /\ ddd = Nil
    /\ formatter = Nil
    /\ angle = Nil
    /\ str = Nil
    /\ sym = Nil
    /\ input = Nil
    /\ parsed = Nil

\* DMS(alpha, &degrees, &minutes, &seconds)
CallDMS ==
    /\ pc = "start"
    /\ LET c == DMS(alpha)
       IN  /\ degrees' = c.degrees
           /\ minutes' = c.minutes
           /\ seconds' = c.seconds
    /\ pc' = "dms"
    /\ UNCHANGED <<alpha, ddd, formatter, angle, str, sym, input, parsed,
                   given, ret, thread, mem, heap, caller>>

\* ddd = Ddd(degrees, minutes, seconds) on what DMS wrote
CallDddOfDMS ==
    /\ pc = "dms"
    /\ ddd' = Ddd(degrees, minutes, seconds)
    /\ pc' = "recomposed"
    /\ UNCHANGED <<alpha, degrees, minutes, seconds, formatter, angle, str,
                   sym, input, parsed, given, ret, thread, mem, heap, caller>>

\* ddd = Ddd(d, m, s) on arguments of the caller's choice
CallDdd ==
    /\ pc = "start"
    /\ \E d \in DddDegrees, m \in DddMinutes, s \in DddSeconds :
        /\ degrees' = d
        /\ minutes' = m
        /\ seconds' = s
        /\ ddd' = Ddd(d, m, s)
    /\ pc' = "ddd"
    /\ UNCHANGED <<alpha, formatter, angle, str, sym, input, parsed, given, ret,
                   thread, mem, heap, caller>>

NextDMS == CallDMS \/ CallDddOfDMS \/ CallDdd

SpecDMS == InitDMS /\ [][NextDMS]_vars

(***************************************************************************)
(* Claims about the converter                                              *)
(***************************************************************************)
\* C1: round trip of the converter: Ddd applied to the triple written by
\* DMS(v) returns v, exactly on the grid, for every v, negative v whose
\* degrees are 0 and negative v whose degrees and minutes are 0 included.
C1_RoundTrip == pc = "recomposed" => FxEq(ddd, alpha) /\ ddd.neg = alpha.neg

C1_Witness ==
    /\ pc = "recomposed"
    /\ FxLt0(alpha)
    /\ degrees = 0
    /\ minutes = 0
    /\ FxLt0(seconds)
    /\ FxEq(ddd, alpha)

\* C2: DMS decomposes |v| by truncation and puts the sign of a negative v on
\* exactly one component: degrees if nonzero, else minutes if nonzero, else
\* seconds.  At most one output is negative, |minutes| < 60, |seconds| < 60,
\* and for v >= 0 all three outputs are >= 0.
C2_Negatives ==
    (IF degrees < 0 THEN 1 ELSE 0) + (IF minutes < 0 THEN 1 ELSE 0)
        + (IF FxLt0(seconds) THEN 1 ELSE 0)

C2_DMS ==
    pc = "dms" =>
        /\ Abs(degrees) = alpha.n \div 3600
        /\ Abs(minutes) = (alpha.n - Abs(degrees) * 3600) \div 60
        /\ seconds.n = alpha.n - Abs(degrees) * 3600 - Abs(minutes) * 60
        /\ seconds.f = alpha.f
        /\ Abs(minutes) < 60
        /\ seconds.n < 60
        /\ C2_Negatives <= 1
        /\ FxLt0(alpha) =>
              /\ C2_Negatives = 1
              /\ degrees # 0 => degrees < 0
              /\ (degrees = 0 /\ minutes # 0) => minutes < 0
              /\ (degrees = 0 /\ minutes = 0) => FxLt0(seconds)
        /\ ~FxLt0(alpha) => degrees >= 0 /\ minutes >= 0 /\ ~seconds.neg

C2_Witness ==
    /\ pc = "dms"
    /\ FxLt0(alpha)
    /\ degrees = 0
    /\ minutes < 0
    /\ seconds.n > 0
    /\ ~seconds.neg

\* C3: Ddd returns a value of magnitude |degrees| + |minutes|/60 +
\* |seconds|/3600, negative iff degrees < 0, or degrees = 0 and minutes < 0,
\* or degrees = 0 and minutes = 0 and seconds < 0; it is total, minutes or
\* seconds >= 60 are taken arithmetically.
C3_Ddd ==
    pc \in {"ddd", "recomposed"} =>
        /\ ddd \in [neg : BOOLEAN, n : Nat, f : 0 .. Scale - 1]
        /\ ddd.n = Abs(degrees) * 3600 + Abs(minutes) * 60 + seconds.n
        /\ ddd.f = seconds.f
        /\ FxLt0(ddd) <=>
              \/ degrees < 0
              \/ degrees = 0 /\ minutes < 0
              \/ degrees = 0 /\ minutes = 0 /\ FxLt0(seconds)

C3_Witness ==
    /\ pc = "ddd"
    /\ degrees = 0
    /\ minutes = 75
    /\ FxLt0(seconds)
    /\ seconds.n = 10
    /\ ~ddd.neg
    /\ ddd.n = 75 * 60 + 10

(***************************************************************************)
(* Calls of the parser                                                     *)
(***************************************************************************)
\* texts of a degrees component
DegreeTokens ==
    {<<"0">>, <<"-", "0">>, <<"+", "0">>, <<"1", "2">>, <<"-", "1", "2">>,
     <<"+", "5">>, <<"1", "2", ".", "5">>, <<"1", "-", "2">>,
     <<"-", "-", "1">>, <<"i", "n", "f">>, <<"a", "b", "c">>,
     <<"-", "1", ".", "5">>, <<"1", ".", "-", "2">>}

\* texts of a minutes component
MinuteTokens ==
    {<<"0">>, <<"2", "0">>, <<"-", "2", "0">>, <<"+", "2", "0">>,
     <<"5", "9">>, <<"6", "0">>, <<"-", "6", "0">>, <<"2", "0", ".", "5">>,
     <<"-", "2", "0", ".", "5">>, <<"+", "0", ".", "5">>,
     <<"6", "0", ".", "5">>, <<"2", ".", "0", ".", "5">>, <<"2", "-", "0">>,
     <<"N", "a", "N">>}

\* texts of a seconds component
SecondTokens ==
    {<<"0">>, <<"3", "0">>, <<"-", "3", "0">>, <<"5", "9">>, <<"6", "0">>,
     <<"4", "4", ".", "1", "6">>, <<"-", "3", "0", ".", "5">>,
     <<"+", "0", ".", "2", "5">>, <<"6", "0", ".", "5">>,
     <<"-", "i", "n", "f">>, <<"3", ".", ".", "0">>,
     <<"-", "6", "0", ".", "5">>, <<"+", "-", "3", "0">>}

\* texts of a lone component
SingleTokens ==
    {<<"1", "2", ".", "3", "5">>, <<"-", "1", "2", ".", "3", "5">>,
     <<"+", ".", "5">>, <<"5", ".">>, <<"-", "0">>, <<"-", "0", ".", "0">>,
     <<"1", "2">>, <<"1", ".", "2", ".", "3">>,
     <<"1", "2", ".", "-", "3", "4">>, <<"+", "-", "1">>, <<"i", "n", "f">>,
     <<"+", "i", "n", "f">>, <<"-", "I", "n", "f", "i", "n", "i", "t", "y">>,
     <<"N", "a", "N">>, <<"+", "n", "a", "n">>, <<"i", "n", "f", "i", "n">>,
     <<"a", "b", "c">>, <<".">>, <<"1", ".", "2", ".", "-", "3">>,
     <<"-", "1", ".", "2", ".", "-", "3">>}

\* inputs of other shapes: empty, blank, illegal characters, too many
\* components, padded and tab or newline separated
OddInputs ==
    {<<>>, <<" ", " ", " ">>, <<"\t">>, <<"1", "2", ",", "5">>,
     <<"1", "2", " ", "2", "0", " ", "4", "4", " ", "1", "6">>,
     <<"1", " ", "2", " ", "3", " ", "4", " ", "5">>,
     <<"1", "2", ";", "5", " ", "1", " ", "2", " ", "3">>, <<"1", "2", "'">>,
     <<"1", ",", "2", ";", "3">>,
     <<" ", " ", "1", "2", ".", "3", "5", " ", " ">>,
     <<"1", "2", " ", " ", " ", "2", "0", " ", " ", " ", " ", "4", "4", ".", "1", "6">>,
     <<"1", "2", "\t", "2", "0">>, <<"\n", "1", "2", " ", "2", "0", "\n">>,
     <<"1", "2", "\n", "2", "0">>}

ParseInputs ==
    SingleTokens \cup OddInputs
        \cup {d \o <<" ">> \o m : d \in DegreeTokens, m \in MinuteTokens}
        \cup {d \o <<" ">> \o m \o <<" ">> \o c :
                 d \in DegreeTokens, m \in MinuteTokens, c \in SecondTokens}
        \cup {<<" ">> \o d \o <<" ", "\t">> \o m \o <<" ", " ">> \o c \o <<" ">> :
                 d \in {<<"-", "0">>, <<"1", "2">>},
                 m \in {<<"2", "0">>, <<"-", "2", "0">>},
                 c \in SecondTokens}

InitParse ==
    /\ pc = "input"
    /\ heap = Nil
    /\ caller = Nil
    /\ thread = Nil
    /\ mem = Nil
    /\ ret = Nil
    /\ given = Nil
    /\ input \in ParseInputs
    /\ parsed = Nil
    /\ alpha = Nil
    /\ degrees = 0
    /\ minutes = 0
    /\ seconds = FxZero
    /\ ddd = Nil
    /\ formatter = Nil
    /\ angle = Nil
    /\ str = Nil
    /\ sym = Nil

\* angle, err := ParseAngle(input)
CallParseAngle ==
    /\ pc = "input"
    /\ parsed' = ParseAngle(input)
    /\ pc' = "parsed"
    /\ UNCHANGED <<alpha, degrees, minutes, seconds, ddd, formatter, angle,
                   str, sym, input, given, ret, thread, mem, heap, caller>>

NextParse == CallParseAngle

SpecParse == InitParse /\ [][NextParse]_vars

(***************************************************************************)
(* Claims about the parser                                                 *)
(***************************************************************************)
\* the whitespace-separated components of the input
Components == Fields(TrimSpace(input))
Returned == pc = "parsed" /\ ~IsError(parsed.err)

\* C4: format inference is purely positional: a successful parse returns Dd
\* for 1 component, DMM / DMMm for 2 components as the second has no / has a
\* '.', DMMSS / DMMSSs for 3 components as the third has no / has a '.'.
C4_TagByPosition ==
    Returned =>
        /\ Len(Components) \in {1, 2, 3}
        /\ Len(Components) = 1 => parsed.angle.format = Dd
        /\ Len(Components) = 2 =>
              parsed.angle.format =
                  IF Contains(Components[2], ".") THEN DMMm ELSE DMM
        /\ Len(Components) = 3 =>
              parsed.angle.format =
                  IF Contains(Components[3], ".") THEN DMMSSs ELSE DMMSS

C4_Witness ==
    /\ Returned
    /\ Len(Components) = 2
    /\ Components[2] = <<"+", "0", ".", "5">>
    /\ parsed.angle.format = DMMm

\* the degrees token is a negative zero: it begins with '-' and parses to 0
NegativeZeroDegrees ==
    /\ Len(Components) \in {2, 3}
    /\ HasPrefix(Components[1], "-")
    /\ Atoi(Components[1]).ok
    /\ Atoi(Components[1]).value = 0

\* |minutes|/60 + |seconds|/3600 of the components, in arc seconds
TokenMagnitude ==
    LET m == FxMul(FxAbs(ParseFloat(Components[2]).value), 60)
        c == IF Len(Components) = 3
             THEN FxAbs(ParseFloat(Components[3]).value) ELSE FxZero
    IN  FxAddAbs(m, c)

ForcedNegative ==
    /\ FxEq(parsed.angle.alpha, FxNeg(TokenMagnitude))
    /\ ~FxIsZero(TokenMagnitude) => FxLt0(parsed.angle.alpha)

\* C9: two components whose degrees token begins with '-' and parses to 0:
\* the returned magnitude is negative, -(|minutes|/60), whatever the sign of
\* the minutes token.
C9_NegativeZeroTwo ==
    (Returned /\ NegativeZeroDegrees /\ Len(Components) = 2) => ForcedNegative

\* C10: three components whose degrees token begins with '-' and parses to 0:
\* the returned magnitude is negative, -(|minutes|/60 + |seconds|/3600), for
\* every combination of signs on the minutes and seconds tokens.
C10_NegativeZeroThree ==
    (Returned /\ NegativeZeroDegrees /\ Len(Components) = 3) => ForcedNegative

\* the input passes the checks made before it is split: it is not blank and
\* all its characters are legal
Legal ==
    /\ TrimSpace(input) # <<>>
    /\ \A k \in 1 .. Len(TrimSpace(input)) :
           TrimSpace(input)[k] \in ValidParseChars
\* at most one sign character in the token, and only in its first position
WellSigned(tok) ==
    /\ Cardinality({k \in 1 .. Len(tok) : tok[k] \in {"+", "-"}}) <= 1
    /\ \A k \in 2 .. Len(tok) : tok[k] \notin {"+", "-"}
Dotted(tok) == \E k \in 1 .. Len(tok) : tok[k] = "."
Rejected(kind) == pc = "parsed" /\ parsed.err.kind = kind

\* C11 as stated: a '.' in a well-signed first component is rejected with the
\* 'unexpected decimal point' error in every mode, single-component included.
C11_IntegerDegreesAlways ==
    (/\ pc = "parsed"
     /\ Legal
     /\ Len(Components) \in {1, 2, 3}
     /\ Dotted(Components[1])
     /\ WellSigned(Components[1]))
    => Rejected("UnexpectedDecimalPoint")

\* C11, amended: with two or three components a '.' in a well-signed first
\* component is rejected with the 'unexpected decimal point' error, naming
\* the degrees; a single component is parsed as a float, and a '.' in it is
\* never reported as unexpected.
C11_IntegerDegrees ==
    (/\ pc = "parsed"
     /\ Legal
     /\ Len(Components) \in {1, 2, 3}
     /\ Dotted(Components[1])
     /\ WellSigned(Components[1]))
    => IF Len(Components) = 1
       THEN ~Rejected("UnexpectedDecimalPoint")
       ELSE Rejected("UnexpectedDecimalPoint")
                /\ parsed.err.component = "degrees"
                /\ IsNilAngle(parsed.angle)

C11_Witness ==
    /\ pc = "parsed"
    /\ Components = << <<"1", "2", ".", "5">>, <<"2", "0">> >>
    /\ Rejected("UnexpectedDecimalPoint")

\* the token is the text of an integer / of a finite decimal number
IntToken(tok) == WellSigned(tok) /\ ~Dotted(tok) /\ Atoi(tok).ok
FloatToken(tok) ==
    /\ WellSigned(tok)
    /\ Cardinality({k \in 1 .. Len(tok) : tok[k] = "."}) <= 1
    /\ ParseFloat(tok).ok
    /\ ParseFloat(tok).class = "finite"
\* a minutes or seconds token as the parser reads it: a float when it has a
\* '.' and is the last component, an integer otherwise
Numeric(tok, last) ==
    IF last /\ Dotted(tok) THEN FloatToken(tok) ELSE IntToken(tok)
\* the magnitude of the number the token denotes is 60 or more
SixtyOrMore(tok) ==
    IF Dotted(tok) THEN ParseFloat(tok).value.n >= 60
    ELSE Abs(Atoi(tok).value) >= 60
MinutesRead ==
    /\ Legal
    /\ Len(Components) \in {2, 3}
    /\ IntToken(Components[1])
    /\ Numeric(Components[2], Len(Components) = 2)
SecondsRead ==
    /\ MinutesRead
    /\ Len(Components) = 3
    /\ ~SixtyOrMore(Components[2])
    /\ Numeric(Components[3], TRUE)

\* C12: range validation: an angle is returned for a multi-component input
\* only if |minutes| < 60 and |seconds| < 60; minutes or seconds that are
\* read as 60 or more in magnitude (integer or fractional, of either sign)
\* are rejected with the 'must be less than 60' error.
C12_RangeValidation ==
    pc = "parsed" =>
        /\ (Returned /\ Len(Components) \in {2, 3}) =>
               /\ MinutesRead /\ ~SixtyOrMore(Components[2])
               /\ Len(Components) = 3 =>
                      SecondsRead /\ ~SixtyOrMore(Components[3])
        /\ (MinutesRead /\ SixtyOrMore(Components[2])) =>
               /\ Rejected("OutOfRange")
               /\ parsed.err.component = "minutes"
               /\ IsNilAngle(parsed.angle)
        /\ (SecondsRead /\ SixtyOrMore(Components[3])) =>
               /\ Rejected("OutOfRange")
               /\ parsed.err.component = "seconds"
               /\ IsNilAngle(parsed.angle)

C12_Witness ==
    /\ pc = "parsed"
    /\ Components = << <<"1", "2">>, <<"-", "6", "0">> >>
    /\ Rejected("OutOfRange")

SignCount(tok) == Cardinality({k \in 1 .. Len(tok) : tok[k] \in {"+", "-"}})
DotCount(tok) == Cardinality({k \in 1 .. Len(tok) : tok[k] = "."})
\* the components before component k are read and in range, so that
\* component k is the one the parser is at
Reaches(k) ==
    /\ Legal
    /\ Len(Components) \in {1, 2, 3}
    /\ k \in 1 .. Len(Components)
    /\ k >= 2 => IntToken(Components[1])
    /\ k = 3 => IntToken(Components[2]) /\ ~SixtyOrMore(Components[2])
\* component k is parsed as a float: a lone component, or a last component
\* with a '.'
FloatParsed(k) ==
    \/ Len(Components) = 1
    \/ k >= 2 /\ k = Len(Components) /\ Dotted(Components[k])
ComponentNames(k) ==
    IF k = 1 THEN {"degrees", "decimal degrees"}
    ELSE IF k = 2 THEN {"minutes"} ELSE {"seconds"}

\* C13: a token with two or more sign characters is rejected as 'multiple
\* signs'; one with exactly one sign character, not at index 0, as 'sign must
\* be at beginning'; a float-parsed token with more than one '.' and valid
\* sign placement as 'multiple decimal points'; in this order and before
\* the conversion, so that no such token is reported as a conversion failure.
C13_TokenValidation ==
    pc = "parsed" =>
        \A k \in 1 .. 3 :
            /\ Reaches(k) =>
                   /\ SignCount(Components[k]) >= 2 =>
                          Rejected("MultipleSigns")
                              /\ parsed.err.component \in ComponentNames(k)
                   /\ (SignCount(Components[k]) = 1
                          /\ ~WellSigned(Components[k])) =>
                          Rejected("MisplacedSign")
                              /\ parsed.err.component \in ComponentNames(k)
                   /\ (FloatParsed(k) /\ WellSigned(Components[k])
                          /\ DotCount(Components[k]) >= 2) =>
                          Rejected("MultipleDecimalPoints")
                              /\ parsed.err.component \in ComponentNames(k)
            /\ (/\ Rejected("InvalidComponent")
                /\ k <= Len(Components)
                /\ parsed.err.component \in ComponentNames(k)) =>
                   /\ WellSigned(Components[k])
                   /\ FloatParsed(k) => DotCount(Components[k]) <= 1

C13_Witness ==
    /\ pc = "parsed"
    /\ Components = << <<"1", "2">>, <<"2", ".", "0", ".", "5">> >>
    /\ Rejected("MultipleDecimalPoints")

\* the textual infinities and NaN
NonFiniteTokens ==
    {<<"i", "n", "f">>, <<"+", "i", "n", "f">>, <<"-", "i", "n", "f">>,
     <<"N", "a", "N">>}

\* C14: an input with a textual infinity or NaN as a component, in any
\* position the parser gets to, is rejected, and the rejection is the
\* 'value is infinite or NaN' error.
C14_NonFiniteRejected ==
    pc = "parsed" =>
        \A k \in 1 .. 3 :
            (Reaches(k) /\ Components[k] \in NonFiniteTokens) =>
                Rejected("NonFiniteValue") /\ IsNilAngle(parsed.angle)

\* digits, '.', '+', '-', space, tab and the ASCII letters
Permitted(c) ==
    \/ c \in {"0", "1", "2", "3", "4", "5", "6", "7", "8", "9"}
    \/ c \in {".", "+", "-", " ", "\t"}
    \/ c \in Range(LowerLetters) \cup Range(UpperLetters)
Blank == \A k \in 1 .. Len(input) : input[k] \in {" ", "\t", "\n"}
\* the positions of the trimmed input that hold a character not permitted
Illegal ==
    {k \in 1 .. Len(TrimSpace(input)) : ~Permitted(TrimSpace(input)[k])}
InputLevelKinds ==
    {"EmptyInput", "WhitespaceOnly", "InvalidCharacter", "TooManyComponents"}

\* C15: the input-level checks are made in a fixed order and the first that
\* fails is reported: empty input, only whitespace, the first character not
\* permitted (named in the error), more than 3 components; an input with an
\* illegal character and more than 3 components reports the character.
C15_InputChecksInOrder ==
    pc = "parsed" =>
        IF input = <<>> THEN Rejected("EmptyInput")
        ELSE IF Blank THEN Rejected("WhitespaceOnly")
        ELSE IF Illegal # {}
        THEN /\ Rejected("InvalidCharacter")
             /\ \E k \in Illegal :
                    /\ \A j \in Illegal : k <= j
                    /\ parsed.err.char = TrimSpace(input)[k]
        ELSE IF Len(Components) > 3 THEN Rejected("TooManyComponents")
        ELSE parsed.err.kind \notin InputLevelKinds

C15_Witness ==
    /\ pc = "parsed"
    /\ input = <<"1", "2", ";", "5", " ", "1", " ", "2", " ", "3">>
    /\ Rejected("InvalidCharacter")
    /\ parsed.err.char = ";"

\* C16: no partial angle on error: ParseAngle returns either an angle and
\* no error or no angle and an error; when a validation step fails the angle
\* is nil, even if earlier components were parsed.
C16_AngleOrError ==
    pc = "parsed" =>
        \/ /\ ~IsError(parsed.err)
           /\ ~IsNilAngle(parsed.angle)
           /\ parsed.angle.format \in AngleFormat
        \/ /\ IsError(parsed.err)
           /\ parsed.angle = NilAngle

C16_Witness ==
    /\ pc = "parsed"
    /\ Components = << <<"1", "2">>, <<"2", "0">>, <<"6", "0", ".", "5">> >>
    /\ Rejected("OutOfRange")
    /\ IsNilAngle(parsed.angle)

\* C17: every error of ParseAngle carries the original, untrimmed input in
\* its message, whatever its kind (the empty input is part of any message).
C17_ErrorEchoesInput ==
    (pc = "parsed" /\ IsError(parsed.err)) =>
        \/ input = <<>>
        \/ parsed.err.quoted /\ parsed.err.echo = input

\* the tokens joined by single spaces
RECURSIVE Joined(_)
Joined(parts) ==
    IF Len(parts) = 0 THEN <<>>
    ELSE IF Len(parts) = 1 THEN parts[1]
    ELSE parts[1] \o <<" ">> \o Joined(Tail(parts))
\* what a caller sees of a result: the magnitude and the tag, or the kind
\* of the error
Outcome(r) ==
    IF IsError(r.err) THEN [kind |-> r.err.kind, angle |-> NilAngle]
    ELSE [kind |-> Nil, angle |-> r.angle]
SpacesAndTabsOnly == \A k \in 1 .. Len(input) : input[k] # "\n"

\* C23: whitespace insensitivity: an input gives the same outcome (magnitude
\* and format tag, or error kind) as the input made of the same component
\* tokens separated by single spaces, without leading or trailing spaces or
\* tabs.
C23_WhitespaceInsensitive ==
    (pc = "parsed" /\ SpacesAndTabsOnly /\ Len(Components) > 0) =>
        Outcome(parsed) = Outcome(ParseAngle(Joined(Components)))

C23_Witness ==
    /\ pc = "parsed"
    /\ input = <<"1", "2", " ", " ", " ", "2", "0", " ", " ", " ", " ",
                 "4", "4", ".", "1", "6">>
    /\ Returned
    /\ parsed.angle.format = DMMSSs
    /\ parsed.angle = ParseAngle(Joined(Components)).angle

\* C26: a decimal point is accepted only where the inferred format has a
\* fractional field: a '.' in a lone component and in the last of two or
\* three components is accepted, a '.' in the degrees token of a
\* multi-component input and in the minutes token of a three-component
\* input is rejected with the 'unexpected decimal point' error.
C26_DecimalPointPlaces ==
    (pc = "parsed" /\ Legal /\ Len(Components) \in {1, 2, 3}) =>
        LET n    == Len(Components)
            last == Components[n]
        IN  /\ (n = 1 /\ Dotted(last) /\ FloatToken(last)) =>
                   Returned /\ parsed.angle.format = Dd
            /\ (n = 2 /\ MinutesRead /\ Dotted(last) /\ ~SixtyOrMore(last)) =>
                   Returned /\ parsed.angle.format = DMMm
            /\ (n = 3 /\ SecondsRead /\ Dotted(last) /\ ~SixtyOrMore(last)) =>
                   Returned /\ parsed.angle.format = DMMSSs
            /\ (n >= 2 /\ Dotted(Components[1]) /\ WellSigned(Components[1])) =>
                   Rejected("UnexpectedDecimalPoint")
                       /\ parsed.err.component = "degrees"
            /\ (n = 3 /\ IntToken(Components[1]) /\ Dotted(Components[2])
                   /\ WellSigned(Components[2])) =>
                   Rejected("UnexpectedDecimalPoint")
                       /\ parsed.err.component = "minutes"
            /\ Rejected("UnexpectedDecimalPoint") =>
                   \/ n >= 2 /\ Dotted(Components[1])
                         /\ parsed.err.component = "degrees"
                   \/ n = 3 /\ Dotted(Components[2])
                         /\ parsed.err.component = "minutes"

C26_Witness ==
    /\ pc = "parsed"
    /\ Components = << <<"1", "2">>, <<"2", "0", ".", "5">>, <<"3", "0">> >>
    /\ Rejected("UnexpectedDecimalPoint")
    /\ parsed.err.component = "minutes"

\* the minutes token is malformed for its place, or out of range
MinutesBad ==
    \/ ~Numeric(Components[2], Len(Components) = 2)
    \/ SixtyOrMore(Components[2])

\* C28: the components are validated from left to right and the first
\* failure is reported: a malformed degrees token gives an error naming the
\* degrees whatever the other tokens are; otherwise a malformed or
\* out-of-range minutes token gives an error naming the minutes, even when
\* the seconds token is invalid too; only then are the seconds looked at.
C28_LeftToRight ==
    (pc = "parsed" /\ Legal /\ Len(Components) \in {2, 3}) =>
        IF ~IntToken(Components[1])
        THEN IsError(parsed.err) /\ parsed.err.component = "degrees"
        ELSE IF MinutesBad
        THEN IsError(parsed.err) /\ parsed.err.component = "minutes"
        ELSE IsError(parsed.err) =>
                 Len(Components) = 3 /\ parsed.err.component = "seconds"

C28_Witness ==
    /\ pc = "parsed"
    /\ Components = << <<"1", "2">>, <<"6", "0">>, <<"3", ".", ".", "0">> >>
    /\ Rejected("OutOfRange")
    /\ parsed.err.component = "minutes"

\* every component of a multi-component input is read and in range
AllRead ==
    /\ MinutesRead
    /\ ~SixtyOrMore(Components[2])
    /\ Len(Components) = 3 =>
           SecondsRead /\ ~SixtyOrMore(Components[3])

\* |degrees| + |minutes|/60 + |seconds|/3600 of the components, in arc
\* seconds
WholeMagnitude ==
    FxAddAbs(Fx(FALSE, Abs(Atoi(Components[1]).value) * SecondsPerDegree, 0),
             TokenMagnitude)

\* the angle returned has the magnitude of the components and the given sign
Signed(negative) ==
    /\ Returned
    /\ FxEq(FxAbs(parsed.angle.alpha), WholeMagnitude)
    /\ parsed.angle.alpha.neg = negative

\* non-zero degrees: a '-' on the minutes or on the seconds is accepted and
\* ignored, the sign is the one of the degrees
SignOfDegrees ==
    (pc = "parsed" /\ AllRead /\ Atoi(Components[1]).value # 0) =>
        Signed(Atoi(Components[1]).value < 0)

\* degrees and minutes are 0 and the seconds are not
SecondsOnly ==
    /\ pc = "parsed"
    /\ AllRead
    /\ Len(Components) = 3
    /\ Atoi(Components[1]).value = 0
    /\ Atoi(Components[2]).value = 0
    /\ ~FxIsZero(ParseFloat(Components[3]).value)

C30_EmptyComponentUnreachable ==
    pc = "parsed" =>
        /\ ~Rejected("NoComponents")
        /\ ~Rejected("EmptyComponent")
        /\ Legal =>
               /\ Len(Components) >= 1
               /\ \A k \in 1 .. Len(Components) : Components[k] # <<>>

C30_Witness ==
    /\ Returned
    /\ input = <<"1", "2", " ", " ", " ", "2", "0", " ", " ", " ", " ",
                 "4", "4", ".", "1", "6">>
    /\ Len(Components) = 3
    /\ parsed.angle.format = DMMSSs

(***************************************************************************)
(* Calls of the formatter: a value is formatted, the string is parsed back *)
(* and the same value is rendered by Angle.String                          *)
(***************************************************************************)
PrecisionValues == {-1, 0, 2, 6}
WidthValues == {-1, 0, 12}

\* f := NewFormatter(alpha)
InitFormat ==
    /\ pc = "new"
    /\ heap = Nil
    /\ caller = Nil
    /\ thread = Nil
    /\ mem = Nil
    /\ ret = Nil
    /\ given = [format |-> {}, precision |-> {}, width |-> {}]
    /\ alpha \in AlphaValues
    /\ formatter = NewFormatter(alpha)
    /\ angle = Nil
    /\ str = Nil
    /\ sym = Nil
    /\ input = Nil
    /\ parsed = Nil
    /\ degrees = 0
    /\ minutes = 0
    /\ seconds = FxZero
    /\ ddd = Nil

\* f.Format(format)
Format ==
    /\ pc = "new"
    /\ \E format \in AngleFormat :
          /\ formatter' = [formatter EXCEPT !.format = format]
          /\ given' = [given EXCEPT !.format = {format}]
    /\ UNCHANGED <<pc, alpha, degrees, minutes, seconds, ddd, angle, str, sym,
                   input, parsed, ret, thread, mem, heap, caller>>

\* f.Precision(precision) storing a fresh DisplayOptions with the precision
Precision_ReplacesDisplay ==
    /\ pc = "new"
    /\ \E precision \in PrecisionValues :
          /\ formatter' = [formatter EXCEPT
                               !.display = [Precision |-> precision, Width |-> 0]]
          /\ given' = [given EXCEPT !.precision = {precision}]
    /\ UNCHANGED <<pc, alpha, degrees, minutes, seconds, ddd, angle, str, sym,
                   input, parsed, ret, thread, mem, heap, caller>>

\* f.Precision(precision)
Precision ==
    /\ pc = "new"
    /\ \E precision \in PrecisionValues :
          /\ formatter' = [formatter EXCEPT !.display.Precision = precision]
          /\ given' = [given EXCEPT !.precision = {precision}]
    /\ UNCHANGED <<pc, alpha, degrees, minutes, seconds, ddd, angle, str, sym,
                   input, parsed, ret, thread, mem, heap, caller>>

\* f.Width(width)
Width ==
    /\ pc = "new"
    /\ \E width \in WidthValues :
          /\ formatter' = [formatter EXCEPT !.display.Width = width]
          /\ given' = [given EXCEPT !.width = {width}]
    /\ UNCHANGED <<pc, alpha, degrees, minutes, seconds, ddd, angle, str, sym,
                   input, parsed, ret, thread, mem, heap, caller>>

\* str = f.String()
String ==
    /\ pc = "new"
    /\ str' = FormatterString(formatter)
    /\ pc' = "formatted"
    /\ UNCHANGED <<alpha, degrees, minutes, seconds, ddd, formatter, angle,
                   sym, input, parsed, given, ret, thread, mem, heap, caller>>

\* parsed, err = ParseAngle(str)
ParseFormatted ==
    /\ pc = "formatted"
    /\ input' = str
    /\ parsed' = ParseAngle(str)
    /\ pc' = "reparsed"
    /\ UNCHANGED <<alpha, degrees, minutes, seconds, ddd, formatter, angle,
                   str, sym, given, ret, thread, mem, heap, caller>>

\* sym = NewAngle(alpha, format).String(), with the format given to f
SymbolString ==
    /\ pc = "reparsed"
    /\ angle' = NewAngle(alpha, formatter.format)
    /\ sym' = AngleString(angle')
    /\ pc' = "symbol"
    /\ UNCHANGED <<alpha, degrees, minutes, seconds, ddd, formatter, str,
                   input, parsed, given, ret, thread, mem, heap, caller>>

NextFormat ==
    Format \/ Precision \/ Width \/ String \/ ParseFormatted \/ SymbolString

SpecFormat == InitFormat /\ [][NextFormat]_vars

(***************************************************************************)
(* Claims about the formatter and the format-then-parse round trip         *)
(***************************************************************************)
Parsed == pc \in {"reparsed", "symbol"}
Accepted == Parsed /\ ~IsError(parsed.err)
\* 10^-6 degree, in arc seconds
MicroDegree == Fx(FALSE, 0, 36 * (Scale \div 10000))

\* C5: format-then-parse round trip for DMMSSs: for every v, ParseAngle of the
\* plain output for (v, DMMSSs, precision 6, width 0) succeeds and returns a
\* magnitude within 10^-6 of v.
C5_RoundTripDMMSSs ==
    (/\ Parsed
     /\ formatter.format = DMMSSs
     /\ formatter.display.Precision = 6
     /\ formatter.display.Width = 0)
    => /\ ~IsError(parsed.err)
       /\ parsed.angle.alpha.neg = alpha.neg
       /\ FxAbsLe(FxAbsDiff(parsed.angle.alpha, alpha), MicroDegree)

\* C6: format-then-parse round trip for DMM: for every v and every precision,
\* ParseAngle of the plain output for (v, DMM, precision, width 0) succeeds
\* and returns v truncated toward zero to whole minutes: less than 1/60
\* degree from v, with the sign of v when the truncated value is nonzero.
C6_RoundTripDMM ==
    (/\ Parsed
     /\ formatter.format = DMM
     /\ formatter.display.Width = 0)
    => /\ ~IsError(parsed.err)
       /\ FxAbsLe(parsed.angle.alpha, alpha)
       /\ FxAbsDiff(parsed.angle.alpha, alpha).n < 60
       /\ parsed.angle.alpha.f = 0
       /\ parsed.angle.alpha.n % 60 = 0
       /\ ~FxIsZero(parsed.angle.alpha) =>
              parsed.angle.alpha.neg = alpha.neg

C6_Witness ==
    /\ Accepted
    /\ formatter.format = DMM
    /\ formatter.display.Width = 0
    /\ formatter.display.Precision = 6
    /\ str = <<"0", " ", "-", "2", "0">>
    /\ FxLt0(alpha)
    /\ alpha.f # 0
    /\ parsed.angle.alpha = Fx(TRUE, 20 * 60, 0)

\* C7: formatter output is always parser input: for every v, format tag,
\* precision >= 0 and width >= 0, ParseAngle accepts the string returned by
\* ConcreteAngleFormatter.String().
C7_OutputParses ==
    (/\ Parsed
     /\ formatter.display.Precision >= 0
     /\ formatter.display.Width >= 0)
    => ~IsError(parsed.err)

\* the fields of the symbol skin: what precedes each of the signs
RECURSIVE SymbolFieldsFrom(_, _, _)
SymbolFieldsFrom(q, cur, acc) ==
    IF q = <<>> THEN (IF cur = <<>> THEN acc ELSE Append(acc, cur))
    ELSE IF Head(q) \in {DegreeSign, MinuteSign, SecondSign}
         THEN SymbolFieldsFrom(Tail(q), <<>>, Append(acc, cur))
         ELSE SymbolFieldsFrom(Tail(q), Append(cur, Head(q)), acc)
SymbolFields(q) == SymbolFieldsFrom(q, <<>>, <<>>)

\* the fields that carry a minus sign
Minus(F) == {k \in 1 .. Len(F) : Contains(F[k], "-")}
\* a minus sign only in front of a field
SignsLead(F) ==
    \A k \in 1 .. Len(F) : Count(F[k], "-") <= 1 /\ ~Contains(Tail(F[k]), "-")

\* the field the sign of a negative alpha belongs to: the first whose rendered
\* value is not 0 (none when all are 0)
SignField(format) ==
    LET d     == alpha.n \div 3600
        m     == (alpha.n % 3600) \div 60
        whole == alpha.n % 60
        min0  == IF format = DMMm THEN m = 0 /\ whole = 0 /\ alpha.f = 0
                 ELSE m = 0
        sec0  == CASE format = DMMSS -> whole = 0
                   [] format = DMMSSs -> whole = 0 /\ alpha.f = 0
                   [] OTHER -> TRUE
    IN  IF d # 0 THEN {1} ELSE IF ~min0 THEN {2} ELSE IF ~sec0 THEN {3} ELSE {}

SignPlaced(F, format) ==
    /\ Len(F) = (IF format \in {DMM, DMMm} THEN 2 ELSE 3)
    /\ SignsLead(F)
    /\ Cardinality(Minus(F)) <= 1
    /\ Minus(F) = SignField(format)
    /\ alpha.n \div 3600 = 0 => F[1] = <<"0">>

\* C8: for every negative v and every sexagesimal format, in the plain and in
\* the symbol skin, a minus sign appears on at most one field: on degrees when
\* the integer degrees are not 0 (the other fields are absolute values),
\* otherwise degrees is a plain 0 and the sign is on minutes when they are not
\* 0, otherwise on seconds; both skins place it on the same field.
C8_SignPlacement ==
    (/\ pc = "symbol"
     /\ FxLt0(alpha)
     /\ formatter.format \in {DMM, DMMm, DMMSS, DMMSSs})
    => /\ SignPlaced(Fields(str), formatter.format)
       /\ SignPlaced(SymbolFields(sym), formatter.format)
       /\ Minus(Fields(str)) = Minus(SymbolFields(sym))

C8_Witness ==
    /\ pc = "symbol"
    /\ FxLt0(alpha)
    /\ formatter.format = DMMSSs
    /\ alpha.n < 60
    /\ Minus(Fields(str)) = {3}
    /\ Minus(SymbolFields(sym)) = {3}
    /\ Fields(str)[1] = <<"0">>
    /\ SymbolFields(sym)[2] = <<"0", "0">>

\* the formatter was given a precision and a width that are not negative
PlainSettings ==
    formatter.display.Precision >= 0 /\ formatter.display.Width >= 0

\* C25 as stated: whenever ParseAngle accepts the output of a formatter with
\* precision >= 0 and width >= 0, the parsed tag is the formatter's tag.
C25_TagSurvivesAlways ==
    (Accepted /\ PlainSettings) => parsed.angle.format = formatter.format

\* the tag the output of the formatter is parsed to: with precision 0 no
\* '.' is printed, and a DMMm string reads as DMM, a DMMSSs string as DMMSS
TagRead ==
    IF formatter.display.Precision = 0 /\ formatter.format = DMMm THEN DMM
    ELSE IF formatter.display.Precision = 0 /\ formatter.format = DMMSSs
    THEN DMMSS
    ELSE formatter.format

\* C25, amended: whenever ParseAngle accepts the output of a formatter with
\* precision >= 0 and width >= 0, the parsed tag is the formatter's tag,
\* except that with precision 0 it is DMM for DMMm and DMMSS for DMMSSs;
\* the padding of the width does not change the outcome.
C25_TagSurvives ==
    (Accepted /\ PlainSettings) => parsed.angle.format = TagRead

C25_Witness ==
    /\ Accepted
    /\ formatter.format = DMMSSs
    /\ formatter.display.Precision = 2
    /\ formatter.display.Width = 12
    /\ str = <<"0", " ", "-", "2", "0", " ", "4", "4", ".", "1", "6", " ">>
    /\ parsed.angle.format = DMMSSs

\* the rendering of the configured value, format and precision at width 0
Unpadded ==
    formatAngle(formatter.value.alpha, formatter.format,
                formatter.display.Precision, 0, FALSE)
Max(a, b) == IF a >= b THEN a ELSE b

\* C18: width handling of the plain formatter: the output is the unpadded
\* rendering followed only by spaces, its length is the larger of the width
\* and the length of the unpadded rendering, it is never cut, and a width
\* of 0 or less gives exactly the unpadded rendering.
C18_Width ==
    pc = "formatted" =>
        /\ Len(Unpadded) > 0 /\ Unpadded[Len(Unpadded)] # " "
        /\ Len(str) = Max(formatter.display.Width, Len(Unpadded))
        /\ SubSeq(str, 1, Len(Unpadded)) = Unpadded
        /\ \A k \in Len(Unpadded) + 1 .. Len(str) : str[k] = " "
        /\ formatter.display.Width <= 0 => str = Unpadded

C18_Witness ==
    /\ pc = "formatted"
    /\ formatter.display.Width = 12
    /\ str = <<"-", "1", "2", ".", "3", "4">> \o [i \in 1 .. 6 |-> " "]

\* C19: a negative precision is treated as 0: for every value, format and
\* negative precision the output is the output of the same formatter with
\* precision 0.
C19_NegativePrecisionIsZero ==
    (pc = "formatted" /\ formatter.display.Precision < 0) =>
        str = FormatterString([formatter EXCEPT !.display.Precision = 0])

\* the last value given to a setter, or the default when it was never called
Setting(values, default) ==
    IF values = {} THEN default ELSE CHOOSE x \in values : TRUE

\* C20: order-independence of the fluent configuration: after any sequence
\* of Format, Precision and Width calls the formatter holds the value it was
\* created with and, for each setter, the last value given to it (Dd, 2 and
\* 0 for a setter never called), and String() is the rendering of these.
C20_OrderIndependence ==
    pc \in {"new", "formatted"} =>
        /\ formatter.value = NewAngle(alpha, Dd)
        /\ formatter.format = Setting(given.format, Dd)
        /\ formatter.display.Precision = Setting(given.precision, 2)
        /\ formatter.display.Width = Setting(given.width, 0)
        /\ pc = "formatted" =>
               str = formatAngle(alpha, Setting(given.format, Dd),
                                 Setting(given.precision, 2),
                                 Setting(given.width, 0), FALSE)

C20_Witness ==
    /\ pc = "formatted"
    /\ given = [format |-> {DMMSSs}, precision |-> {0}, width |-> {12}]
    /\ str = <<"1", "2", " ", "2", "0", " ", "4", "4">> \o [i \in 1 .. 4 |-> " "]

(***************************************************************************)
(* Calls of the methods of an Angle                                        *)
(***************************************************************************)
\* an AngleFormat that is none of the five constants: AngleFormat(5)
OtherFormat == "AngleFormat(5)"

\* the variadic format argument of NewAngle and Set: none, or one format
FormatArguments == {<<>>} \cup {<<f>> : f \in AngleFormat \cup {OtherFormat}}

\* a := NewAngle(alpha, format...)
InitAngle ==
    /\ pc = "angle"
    /\ heap = Nil
    /\ caller = Nil
    /\ thread = Nil
    /\ mem = Nil
    /\ alpha \in AlphaValues
    /\ given \in FormatArguments
    /\ angle = NewAngleVariadic(alpha, given)
    /\ ret = [call |-> Nil, value |-> Nil]
    /\ sym = <<>>
    /\ str = Nil
    /\ input = Nil
    /\ parsed = Nil
    /\ formatter = Nil
    /\ degrees = 0
    /\ minutes = 0
    /\ seconds = FxZero
    /\ ddd = Nil

\* a.Set(format...)
CallSet ==
    /\ pc = "angle"
    /\ \E format \in FormatArguments :
          /\ angle' = Set(angle, format)
          /\ given' = format
    /\ UNCHANGED <<pc, alpha, degrees, minutes, seconds, ddd, formatter, str,
                   sym, input, parsed, ret, thread, mem, heap, caller>>

\* a.Alpha()
CallAlpha ==
    /\ pc = "angle"
    /\ ret' = [call |-> "Alpha", value |-> Alpha(angle)]
    /\ UNCHANGED <<pc, alpha, degrees, minutes, seconds, ddd, formatter, angle,
                   str, sym, input, parsed, given, thread, mem, heap, caller>>

\* a.Degrees()
CallDegrees ==
    /\ pc = "angle"
    /\ ret' = [call |-> "Degrees", value |-> Degrees(angle)]
    /\ UNCHANGED <<pc, alpha, degrees, minutes, seconds, ddd, formatter, angle,
                   str, sym, input, parsed, given, thread, mem, heap, caller>>

\* a.Radians()
CallRadians ==
    /\ pc = "angle"
    /\ ret' = [call |-> "Radians", value |-> Radians(angle)]
    /\ UNCHANGED <<pc, alpha, degrees, minutes, seconds, ddd, formatter, angle,
                   str, sym, input, parsed, given, thread, mem, heap, caller>>

\* a.Format()
CallFormat ==
    /\ pc = "angle"
    /\ ret' = [call |-> "Format", value |-> AngleFormatOf(angle)]
    /\ UNCHANGED <<pc, alpha, degrees, minutes, seconds, ddd, formatter, angle,
                   str, sym, input, parsed, given, thread, mem, heap, caller>>

\* a.String()
CallString ==
    /\ pc = "angle"
    /\ sym' = AngleString(angle)
    /\ UNCHANGED <<pc, alpha, degrees, minutes, seconds, ddd, formatter, angle,
                   str, input, parsed, given, ret, thread, mem, heap, caller>>

NextAngle ==
    CallSet \/ CallAlpha \/ CallDegrees \/ CallRadians \/ CallFormat
        \/ CallString

SpecAngle == InitAngle /\ [][NextAngle]_vars

\* the format the last NewAngle or Set call asked for
Asked == IF given = <<>> THEN Dd ELSE given[1]

\* C21: the magnitude of an Angle is immutable: after NewAngle(alpha, ...)
\* and any sequence of Set, String, Format, Degrees, Radians and Alpha calls
\* the Angle holds alpha, which Alpha() and Degrees() return, and the format
\* of the last NewAngle or Set call (Dd when it had no argument).
C21_MagnitudeImmutable ==
    pc = "angle" =>
        /\ angle.alpha = alpha
        /\ angle.format = Asked
        /\ ret.call \in {"Alpha", "Degrees"} => ret.value = alpha
        /\ ret.call = "Format" => ret.value \in AngleFormat \cup {OtherFormat}

\* C24: the refactoring preserved behaviour: for every magnitude and every
\* format tag, defined or not, Angle.String() of the refactored code returns
\* the string of the original, per-case Angle.String().
\* (a step that changes sym is a call of String on the Angle as it is)
C24_SameAsOriginal ==
    [][(pc = "angle" /\ sym' # sym) => sym' = OriginalString(angle)]_vars

C24_Witness ==
    /\ pc = "angle"
    /\ angle.format = DMMSSs
    /\ sym = <<"0", DegreeSign, "-", "2", "0", MinuteSign, "4", "4", ".",
               "1", "6", "0", SecondSign>>
    /\ sym = OriginalString(angle)

C21_Witness ==
    /\ pc = "angle"
    /\ given = <<DMM>>
    /\ angle.format = DMM
    /\ sym = <<"1", "2", ".", "3", "4", "5", "6", "0", DegreeSign>>
    /\ ret.call = "Degrees"
    /\ ret.value = alpha

(***************************************************************************)
(* Concurrent callers: each thread runs                                    *)
(*     c := getDMSComponents(alpha)      (statement by statement)          *)
(*     v := Ddd(c.degrees, c.minutes, c.seconds)                           *)
(*     s := formatAngle(v, DMMSSs, 2, 0, false)                            *)
(*     p, err := ParseAngle(s)                                             *)
(***************************************************************************)
Threads == {1, 2}

ThreadAlphas ==
    {AlphaOf(FALSE, 12, 20, 44, 16 * (Scale \div 100)),
     AlphaOf(TRUE, 8, 9, 0, 0),
     AlphaOf(TRUE, 0, 20, 44, 16 * (Scale \div 100)),
     AlphaOf(TRUE, 0, 0, 10, Scale \div 2)}

\* getDMSComponents declaring its variables at package level
Local_PackageLevel(t, name) == <<1, name>>

\* var degrees, minutes int; var seconds float64: the variables of the call
\* of getDMSComponents made by thread t
Local(t, name) == <<t, name>>

\* the variables not touched by the threads
sequential ==
    <<pc, alpha, degrees, minutes, seconds, ddd, formatter, angle, str, sym,
      input, parsed, given, ret, heap, caller>>

InitThreads ==
    /\ pc = "threads"
    /\ heap = Nil
    /\ caller = Nil
    /\ thread \in
          [Threads ->
              {[pc |-> "call", alpha |-> a, negative |-> FALSE,
                decimalDegrees |-> FxZero, remainder |-> FxZero,
                components |-> [degrees |-> 0, minutes |-> 0,
                                seconds |-> FxZero, isNegativeZero |-> FALSE],
                value |-> FxZero, str |-> <<>>,
                parsed |-> [angle |-> NilAngle, err |-> NoError]] :
               a \in ThreadAlphas}]
    /\ mem = [l \in Threads \X {"degrees", "minutes", "seconds"} |->
                  IF l[2] = "seconds" THEN FxZero ELSE 0]
    /\ alpha = Nil
    /\ degrees = 0
    /\ minutes = 0
    /\ seconds = FxZero
    /\ ddd = Nil
    /\ formatter = Nil
    /\ angle = Nil
    /\ str = Nil
    /\ sym = Nil
    /\ input = Nil
    /\ parsed = Nil
    /\ given = Nil
    /\ ret = Nil

\* getDMSComponents: var degrees int; var minutes int; var seconds float64;
\* DMS: negative := decimalDegrees < 0; decimalDegrees = -decimalDegrees
Declare ==
    \E t \in Threads :
        /\ pc = "threads"
        /\ thread[t].pc = "call"
        /\ mem' = [mem EXCEPT ![Local(t, "degrees")] = 0,
                              ![Local(t, "minutes")] = 0,
                              ![Local(t, "seconds")] = FxZero]
        /\ thread' = [thread EXCEPT
                         ![t].negative = FxLt0(thread[t].alpha),
                         ![t].decimalDegrees = FxAbs(thread[t].alpha),
                         ![t].pc = "degrees"]
        /\ UNCHANGED sequential

\* *degrees = int(decimalDegrees)
StoreDegrees ==
    \E t \in Threads :
        /\ pc = "threads"
        /\ thread[t].pc = "degrees"
        /\ mem' = [mem EXCEPT ![Local(t, "degrees")] =
                       thread[t].decimalDegrees.n \div SecondsPerDegree]
        /\ thread' = [thread EXCEPT ![t].pc = "remainder"]
        /\ UNCHANGED sequential

\* remainder := (decimalDegrees - float64(*degrees)) * MinutesPerDegree
\* (minutes, held in arc seconds)
Remainder ==
    \E t \in Threads :
        /\ pc = "threads"
        /\ thread[t].pc = "remainder"
        /\ thread' = [thread EXCEPT
                         ![t].remainder =
                             Fx(FALSE,
                                thread[t].decimalDegrees.n
                                    - mem[Local(t, "degrees")] * SecondsPerDegree,
                                thread[t].decimalDegrees.f),
                         ![t].pc = "minutes"]
        /\ UNCHANGED <<mem, sequential>>

\* *minutes = int(remainder)
StoreMinutes ==
    \E t \in Threads :
        /\ pc = "threads"
        /\ thread[t].pc = "minutes"
        /\ mem' = [mem EXCEPT ![Local(t, "minutes")] =
                       thread[t].remainder.n \div SecondsPerMinute]
        /\ thread' = [thread EXCEPT ![t].pc = "seconds"]
        /\ UNCHANGED sequential

\* *seconds = (remainder - float64(*minutes)) * SecondsPerMinute
StoreSeconds ==
    \E t \in Threads :
        /\ pc = "threads"
        /\ thread[t].pc = "seconds"
        /\ mem' = [mem EXCEPT ![Local(t, "seconds")] =
                       Fx(FALSE,
                          thread[t].remainder.n
                              - mem[Local(t, "minutes")] * SecondsPerMinute,
                          thread[t].remainder.f)]
        /\ thread' = [thread EXCEPT ![t].pc = "sign"]
        /\ UNCHANGED sequential

\* if negative { the first of *degrees, *minutes that is not 0, or else
\* *seconds, is negated }
StoreSign ==
    \E t \in Threads :
        /\ pc = "threads"
        /\ thread[t].pc = "sign"
        /\ mem' =
              IF ~thread[t].negative THEN mem
              ELSE IF mem[Local(t, "degrees")] # 0
              THEN [mem EXCEPT ![Local(t, "degrees")] = -mem[Local(t, "degrees")]]
              ELSE IF mem[Local(t, "minutes")] # 0
              THEN [mem EXCEPT ![Local(t, "minutes")] = -mem[Local(t, "minutes")]]
              ELSE [mem EXCEPT ![Local(t, "seconds")] =
                        FxNeg(mem[Local(t, "seconds")])]
        /\ thread' = [thread EXCEPT ![t].pc = "return"]
        /\ UNCHANGED sequential

\* return DMSComponents{degrees, minutes, seconds, alpha < 0 && degrees == 0}
ReturnComponents ==
    \E t \in Threads :
        /\ pc = "threads"
        /\ thread[t].pc = "return"
        /\ thread' = [thread EXCEPT
                         ![t].components =
                             [degrees |-> mem[Local(t, "degrees")],
                              minutes |-> mem[Local(t, "minutes")],
                              seconds |-> mem[Local(t, "seconds")],
                              isNegativeZero |->
                                  FxLt0(thread[t].alpha)
                                      /\ mem[Local(t, "degrees")] = 0],
                         ![t].pc = "ddd"]
        /\ UNCHANGED <<mem, sequential>>

\* v := Ddd(c.degrees, c.minutes, c.seconds)
ThreadDdd ==
    \E t \in Threads :
        /\ pc = "threads"
        /\ thread[t].pc = "ddd"
        /\ thread' = [thread EXCEPT
                         ![t].value = Ddd(thread[t].components.degrees,
                                          thread[t].components.minutes,
                                          thread[t].components.seconds),
                         ![t].pc = "format"]
        /\ UNCHANGED <<mem, sequential>>

\* s := formatAngle(v, DMMSSs, 2, 0, false)
ThreadFormat ==
    \E t \in Threads :
        /\ pc = "threads"
        /\ thread[t].pc = "format"
        /\ thread' = [thread EXCEPT
                         ![t].str = formatAngle(thread[t].value, DMMSSs, 2, 0,
                                                FALSE),
                         ![t].pc = "parse"]
        /\ UNCHANGED <<mem, sequential>>

\* p, err := ParseAngle(s)
ThreadParse ==
    \E t \in Threads :
        /\ pc = "threads"
        /\ thread[t].pc = "parse"
        /\ thread' = [thread EXCEPT
                         ![t].parsed = ParseAngle(thread[t].str),
                         ![t].pc = "done"]
        /\ UNCHANGED <<mem, sequential>>

NextThreads ==
    Declare \/ StoreDegrees \/ Remainder \/ StoreMinutes \/ StoreSeconds
        \/ StoreSign \/ ReturnComponents \/ ThreadDdd \/ ThreadFormat
        \/ ThreadParse

SpecThreads == InitThreads /\ [][NextThreads]_vars

\* the results of the thread's calls had they run alone
AloneComponents(t) == getDMSComponents(thread[t].alpha)
AloneValue(t) ==
    Ddd(AloneComponents(t).degrees, AloneComponents(t).minutes,
        AloneComponents(t).seconds)
AloneString(t) == formatAngle(AloneValue(t), DMMSSs, 2, 0, FALSE)
AloneParsed(t) == ParseAngle(AloneString(t))

\* C22: purity under concurrency: whatever the interleaving of the threads,
\* each call of DMS (on the caller's own variables), Ddd, formatAngle and
\* ParseAngle returns what it returns when run alone, and calls with equal
\* arguments return equal results.
C22_Purity ==
    pc = "threads" =>
        /\ \A t \in Threads :
               /\ thread[t].pc \in {"ddd", "format", "parse", "done"} =>
                      thread[t].components = AloneComponents(t)
               /\ thread[t].pc \in {"format", "parse", "done"} =>
                      thread[t].value = AloneValue(t)
               /\ thread[t].pc \in {"parse", "done"} =>
                      thread[t].str = AloneString(t)
               /\ thread[t].pc = "done" =>
                      thread[t].parsed = AloneParsed(t)
        /\ \A t, u \in Threads :
               (/\ thread[t].pc = "done"
                /\ thread[u].pc = "done"
                /\ thread[t].alpha = thread[u].alpha) =>
                   /\ thread[t].components = thread[u].components
                   /\ thread[t].value = thread[u].value
                   /\ thread[t].str = thread[u].str
                   /\ thread[t].parsed = thread[u].parsed

C22_Witness ==
    /\ pc = "threads"
    /\ thread[1].pc = "done"
    /\ thread[1].str = <<"0", " ", "-", "2", "0", " ", "4", "4", ".", "1", "6">>
    /\ thread[2].pc = "seconds"
    /\ thread[2].alpha = AlphaOf(TRUE, 8, 9, 0, 0)
    /\ mem[Local(2, "degrees")] = 8

(***************************************************************************)
(* A caller holding references to formatters: the objects live in a heap,  *)
(* NewFormatter allocates, the setters write through the receiver and      *)
(* return a reference                                                      *)
(***************************************************************************)
MaxFormatters == 2
MaxReferences == 3

AliasAlphas ==
    {AlphaOf(FALSE, 12, 20, 44, 16 * (Scale \div 100)),
     AlphaOf(TRUE, 0, 20, 44, 16 * (Scale \div 100))}
AliasFormats == {DMM, DMMSSs}
AliasPrecisions == {0}
AliasWidths == {9}

\* the variables not touched by the caller of this section
unaliased ==
    <<alpha, degrees, minutes, seconds, ddd, formatter, angle, sym, input,
      parsed, given, ret, thread, mem>>

InitAlias ==
    /\ pc = "alias"
    /\ heap = [formatters |-> <<>>, displays |-> <<>>]
    /\ caller = [refs |-> <<>>, set |-> <<>>, via |-> 0]
    /\ str = <<>>
    /\ alpha = Nil
    /\ degrees = 0
    /\ minutes = 0
    /\ seconds = FxZero
    /\ ddd = Nil
    /\ formatter = Nil
    /\ angle = Nil
    /\ sym = Nil
    /\ input = Nil
    /\ parsed = Nil
    /\ given = Nil
    /\ ret = Nil
    /\ thread = Nil
    /\ mem = Nil

\* the caller keeps the reference a call returned, tagged with the
\* NewFormatter call it stems from (it keeps at most MaxReferences)
Keep(address, origin) ==
    IF Len(caller.refs) < MaxReferences
    THEN Append(caller.refs, [address |-> address, origin |-> origin])
    ELSE caller.refs

\* f := NewFormatter(a): &ConcreteAngleFormatter{value: NewAngle(a, Dd),
\* format: Dd, display: NewDisplayOptions()}, both freshly allocated
CallNewFormatter ==
    /\ pc = "alias"
    /\ Len(heap.formatters) < MaxFormatters
    /\ Len(caller.refs) < MaxReferences
    /\ \E a \in AliasAlphas :
          /\ heap' = [formatters |->
                          Append(heap.formatters,
                                 [value |-> NewAngle(a, Dd), format |-> Dd,
                                  display |-> Len(heap.displays) + 1]),
                      displays |-> Append(heap.displays, NewDisplayOptions)]
          /\ caller' = [refs |-> Keep(Len(heap.formatters) + 1,
                                      Len(caller.set) + 1),
                        set |-> Append(caller.set,
                                       [alpha |-> a, format |-> Dd,
                                        precision |-> DefaultPrecision,
                                        width |-> DefaultWidth]),
                        via |-> 0]
    /\ UNCHANGED <<pc, str, unaliased>>

\* g := r.Format(format) on a value receiver: the format is set on a copy,
\* and the copy is returned
FormatVia_Copy ==
    /\ pc = "alias"
    /\ Len(heap.formatters) < MaxFormatters + MaxReferences
    /\ \E k \in 1 .. Len(caller.refs), format \in AliasFormats :
          LET r == caller.refs[k]
          IN  /\ heap' = [heap EXCEPT
                              !.formatters =
                                  Append(@, [heap.formatters[r.address]
                                                EXCEPT !.format = format])]
              /\ caller' = [caller EXCEPT
                                !.refs = Keep(Len(heap.formatters) + 1, r.origin),
                                !.set[r.origin].format = format,
                                !.via = 0]
    /\ UNCHANGED <<pc, str, unaliased>>

\* g := r.Format(format): f.format = format; return f
FormatVia ==
    /\ pc = "alias"
    /\ \E k \in 1 .. Len(caller.refs), format \in AliasFormats :
          LET r == caller.refs[k]
          IN  /\ heap' = [heap EXCEPT !.formatters[r.address].format = format]
              /\ caller' = [caller EXCEPT
                                !.refs = Keep(r.address, r.origin),
                                !.set[r.origin].format = format,
                                !.via = 0]
    /\ UNCHANGED <<pc, str, unaliased>>

\* g := r.Precision(precision): f.display.Precision = precision; return f
PrecisionVia ==
    /\ pc = "alias"
    /\ \E k \in 1 .. Len(caller.refs), precision \in AliasPrecisions :
          LET r == caller.refs[k]
              d == heap.formatters[r.address].display
          IN  /\ heap' = [heap EXCEPT !.displays[d].Precision = precision]
              /\ caller' = [caller EXCEPT
                                !.refs = Keep(r.address, r.origin),
                                !.set[r.origin].precision = precision,
                                !.via = 0]
    /\ UNCHANGED <<pc, str, unaliased>>

\* g := r.Width(width): f.display.Width = width; return f
WidthVia ==
    /\ pc = "alias"
    /\ \E k \in 1 .. Len(caller.refs), width \in AliasWidths :
          LET r == caller.refs[k]
              d == heap.formatters[r.address].display
          IN  /\ heap' = [heap EXCEPT !.displays[d].Width = width]
              /\ caller' = [caller EXCEPT
                                !.refs = Keep(r.address, r.origin),
                                !.set[r.origin].width = width,
                                !.via = 0]
    /\ UNCHANGED <<pc, str, unaliased>>

\* str = r.String(): formatAngle(f.value.Degrees(), f.format,
\* f.display.Precision, f.display.Width, false)
StringVia ==
    /\ pc = "alias"
    /\ \E k \in 1 .. Len(caller.refs) :
          LET f == heap.formatters[caller.refs[k].address]
          IN  /\ str' = formatAngle(Degrees(f.value), f.format,
                                    heap.displays[f.display].Precision,
                                    heap.displays[f.display].Width, FALSE)
              /\ caller' = [caller EXCEPT !.via = k]
    /\ UNCHANGED <<pc, heap, unaliased>>

NextAlias ==
    CallNewFormatter \/ FormatVia \/ PrecisionVia \/ WidthVia \/ StringVia

SpecAlias == InitAlias /\ [][NextAlias]_vars

\* the rendering of what the caller set, through whatever reference, on the
\* formatter of the k-th NewFormatter call
Rendering(k) ==
    formatAngle(caller.set[k].alpha, caller.set[k].format,
                caller.set[k].precision, caller.set[k].width, FALSE)

\* C27: the fluent setters mutate and return the receiver: the references
\* that stem from one NewFormatter call are to one formatter, String()
\* through any of them shows the settings applied through any other, and
\* formatters of separate NewFormatter calls are separate and do not affect
\* each other's output.
C27_SettersReturnReceiver ==
    pc = "alias" =>
        /\ \A i, j \in 1 .. Len(caller.refs) :
               (caller.refs[i].origin = caller.refs[j].origin)
                   <=> (caller.refs[i].address = caller.refs[j].address)
        /\ caller.via # 0 =>
               str = Rendering(caller.refs[caller.via].origin)

C27_Witness ==
    /\ pc = "alias"
    /\ Len(caller.refs) = 3
    /\ caller.refs[1].origin = 1
    /\ caller.refs[2].origin = 2
    /\ caller.refs[3].origin = 1
    /\ caller.set[1].format = DMMSSs
    /\ caller.set[2].format = Dd
    /\ caller.via = 1
    /\ str = <<"0", " ", "-", "2", "0", " ", "4", "4", ".", "1", "6">>

(***************************************************************************)
(* The package as a whole: any of the three callers                        *)
(***************************************************************************)
Init ==
    InitDMS \/ InitParse \/ InitFormat \/ InitAngle \/ InitThreads
        \/ InitAlias

Next ==
    NextDMS \/ NextParse \/ NextFormat \/ NextAngle \/ NextThreads
        \/ NextAlias

Spec == Init /\ [][Next]_vars

====
